---- MODULE Spec2Model ----
(***************************************************************************)
(* A model of ki's synchronisation engine (src/ki/__init__.py): the three  *)
(* operations clone, pull and push between an Anki collection file and a   *)
(* git repository of note files, together with the .ki/ sidecar (hashes    *)
(* log, backups), the LCA tag and the collection handles.                  *)
(***************************************************************************)
EXTENDS Integers, Sequences, FiniteSets, TLC

\* ------------------------------------------------------------------ bounds
MaxVal == 2          \* distinct field contents a note can have
MaxOps == 3          \* working-tree edits, out-of-band modifications of the
                     \* collection, openings of it by another program and
                     \* non-trivial pushes

\* ------------------------------------------------------- program constants
ColName == "collection.anki2"

\* ---------------------------------------------------------------- domains
GUIDs == {"g1", "g2"}
\* Note files in the working tree, notes in the collection: one per guid.
MaxFiles == Cardinality(GUIDs)
Vals == 1..MaxVal
Models == {"Basic", "Cloze"}
\* A note file lives at <slug>.md (n = 0) or <slug>_<n>.md; the slug is
\* derived from the sort field, here the field content itself. The user
\* picks file names among UserPaths.
UserPaths == [slug : Vals, n : 0..(MaxFiles - 1)]
NoFile == [nofile |-> TRUE]
NoTag == 0

\* Order on paths (the order in which git lists diff entries).
PathLt(p, q) == p.slug < q.slug \/ (p.slug = q.slug /\ p.n < q.n)

\* A tree: the note files by path, and the notetypes of models.json.
EmptyTree == [files |-> <<>>, models |-> {}]

FilesOf(t) == DOMAIN t.files
FileAt(t, p) == IF p \in DOMAIN t.files THEN t.files[p] ELSE NoFile
Write(files, p, f) == [q \in DOMAIN files \cup {p} |-> IF q = p THEN f ELSE files[q]]
Remove(files, p) == [q \in DOMAIN files \ {p} |-> files[q]]

\* ---------------------------------------------------------------- hashing
\* F.md5: digest of the bytes of a file. Different bytes give different
\* digests; the digest is not the content.
md5(bytes) == <<"md5", bytes.mod, bytes.notes, bytes.models, bytes.split>>

\* One line of .ki/hashes, "<md5sum>  <tag>".
HashLine(md5sum, tag) == [md5 |-> md5sum, tag |-> tag]

\* Variant: equality with the whole line instead of the substring test.
Contains_line(line, md5sum) == <<line.md5, line.tag>> = md5sum

\* `md5sum in hashes[-1]`: substring test on the text of the line. The tag
\* is the collection's file name, which holds no digest.
Contains(line, md5sum) == line.md5 = md5sum

\* append_md5sum: open in "a+" mode and write one line.
append_md5sum(hashes, tag, md5sum) == Append(hashes, HashLine(md5sum, tag))

IsPrefix(s, t) == Len(s) <= Len(t) /\ SubSeq(t, 1, Len(s)) = s

\* ------------------------------------------------------------------ state
VARIABLES
    col,        \* bytes of the live collection file: [notes, models, mod]
    ankiOpen,   \* another program holds the exclusive SQLite transaction
    target,     \* typed path of the clone target: NoPath, EmptyDir, Dir (a
                \* directory with contents), Partial (what a failed clone
                \* wrote) or Repo
    repo,       \* the user's working repository (see NoRepo for its fields)
    backups,    \* files of .ki/backups: set of [ts, md5, bytes]
    now,        \* the clock, in milliseconds
    pc,         \* position of the running operation, or "idle"/"returned"
    loc,        \* local variables of the running operation
    pre,        \* the state the running operation started from
    res,        \* how the last operation ended
    handles,    \* the Collection objects of the running operation
    used        \* what the environment has done so far

vars == <<col, ankiOpen, target, repo, backups, now, pc, loc, pre, res,
          handles, used>>

NoRepo == [wt |-> EmptyTree, wtHashes |-> <<>>,
           head |-> 0, headTree |-> EmptyTree, headHashes |-> <<>>,
           lca |-> NoTag, lcaTree |-> EmptyTree, lcaHashes |-> <<>>,
           unmerged |-> FALSE]

NoLoc == [md5sum |-> <<>>, new |-> FALSE, deltas |-> <<>>, tempcol |-> <<>>,
          tempfile |-> <<>>, out |-> "", head |-> <<>>, index |-> <<>>,
          applied |-> FALSE, backedup |-> FALSE, denied |-> FALSE]

NoPre == <<>>

NoHandles == [col |-> "none", tempcol |-> "none"]

NoRes == [op |-> "none", outcome |-> "none"]

Snapshot == [col |-> col, repo |-> repo, backups |-> backups, target |-> target]

\* The environment and the operations still have moves left.
Budget == used.ops < MaxOps

\* ------------------------------------------------------------------ clone
\* Notes in the order find_notes returns them (ascending note id).
RECURSIVE SortedNotes(_)
SortedNotes(S) ==
    IF S = {} THEN <<>>
    ELSE LET m == CHOOSE x \in S : \A y \in S : x.nid <= y.nid
         IN <<m>> \o SortedNotes(S \ {m})

\* get_note_path: <slug>.md, else the first free <slug>_<i>.md.
RECURSIVE get_note_path(_, _, _)
get_note_path(files, slug, i) ==
    LET note_path == [slug |-> slug, n |-> i]
    IN IF note_path \notin DOMAIN files THEN note_path
       ELSE get_note_path(files, slug, i + 1)

\* write_note for each ColNote: the payload carries guid, notetype and fields.
RECURSIVE write_notes(_, _)
write_notes(colnotes, files) ==
    IF colnotes = <<>> THEN files
    ELSE LET n == Head(colnotes)
             path == get_note_path(files, n.val, 0)
             payload == [guid |-> n.guid, val |-> n.val, model |-> n.model]
         IN write_notes(Tail(colnotes), Write(files, path, payload))

\* write_repository / write_decks: the note files and the root models.json.
write_repository(bytes) ==
    [files |-> write_notes(SortedNotes(bytes.notes), EmptyTree.files),
     models |-> bytes.models]

\* _clone2 into an empty directory: write the tree, git init, append the
\* checksum taken at the start, commit everything.
clone2(bytes) ==
    LET md5sum == md5(bytes)
        tree == write_repository(bytes)
        hashes == append_md5sum(<<>>, ColName, md5sum)
    IN [NoRepo EXCEPT !.wt = tree, !.wtHashes = hashes, !.head = 1,
                      !.headTree = tree, !.headHashes = hashes]

\* Variant: the tag is not created.
create_tag_none(r) == r

\* repo.create_tag(LCA): the tag on the commit that is HEAD.
create_tag(r) ==
    [r EXCEPT !.lca = r.head, !.lcaTree = r.headTree, !.lcaHashes = r.headHashes]

\* repo.delete_tag(LCA).
delete_tag(r) == [r EXCEPT !.lca = NoTag]

\* get_target: a missing path is created, an empty directory is taken as it
\* is, anything else is refused.
get_target(path) ==
    IF path = "NoPath" THEN [err |-> "none", targetdir |-> "EmptyDir", new |-> TRUE]
    ELSE IF path = "EmptyDir"
    THEN [err |-> "none", targetdir |-> "EmptyDir", new |-> FALSE]
    ELSE [err |-> "TargetExistsError", targetdir |-> path, new |-> TRUE]

\* Variant: the PermissionError is not caught, the directory is left as it is.
cleanup_keep(targetdir, new, denied) == targetdir

\* cleanup(targetdir, new): remove the directory, or empty it. A
\* PermissionError while removing is swallowed and the directory stays.
cleanup(targetdir, new, denied) ==
    IF denied THEN targetdir
    ELSE IF new THEN "NoPath" ELSE "EmptyDir"

\* Variant: BEGIN EXCLUSIVE always succeeds.
lock_free(held) == "ok"

\* SQLite's answer to BEGIN EXCLUSIVE (lock, lines 188-193): refused while
\* another connection holds a transaction on the file.
lock(held) == IF held THEN "SQLiteLockError" ELSE "ok"

Return(op, outcome) ==
    /\ pc' = "returned"
    /\ res' = [op |-> op, outcome |-> outcome]

\* Variant: get_target is called inside the try block, so that its error is
\* cleaned up after like any other.
CloneStartCleansAll ==
    /\ pc = "idle"
    /\ target # "Repo"
    /\ pre' = Snapshot
    /\ LET t == get_target(target)
       IN \E denied \in BOOLEAN :
          /\ loc' = [NoLoc EXCEPT !.new = t.new, !.denied = denied]
          /\ IF t.err # "none"
             THEN /\ target' = cleanup(t.targetdir, t.new, denied)
                  /\ Return("clone", t.err)
                  /\ UNCHANGED handles
             ELSE IF lock(ankiOpen) # "ok"
             THEN /\ target' = cleanup(t.targetdir, t.new, denied)
                  /\ Return("clone", lock(ankiOpen))
                  /\ UNCHANGED handles
             ELSE /\ ~denied
                  /\ target' = t.targetdir
                  /\ handles' = [handles EXCEPT !.col = "open"]
                  /\ pc' = "clone2"
                  /\ UNCHANGED res
    /\ UNCHANGED <<col, ankiOpen, repo, backups, now, used>>

\* _clone1, lines 1344-1348: get_target, then open the collection. The except
\* clause (lines 1356-1358) cleans the target up and re-raises; get_target
\* runs before the try block.
CloneStart ==
    /\ pc = "idle"
    /\ target # "Repo"
    /\ pre' = Snapshot
    /\ LET t == get_target(target)
       IN \E denied \in BOOLEAN :
          /\ loc' = [NoLoc EXCEPT !.new = t.new, !.denied = denied]
          /\ IF t.err # "none"
             THEN /\ ~denied
                  /\ Return("clone", t.err)
                  /\ UNCHANGED <<target, handles>>
             ELSE IF lock(ankiOpen) # "ok"
             THEN /\ target' = cleanup(t.targetdir, t.new, denied)
                  /\ Return("clone", lock(ankiOpen))
                  /\ UNCHANGED handles
             ELSE /\ ~denied
                  /\ target' = t.targetdir
                  /\ handles' = [handles EXCEPT !.col = "open"]
                  /\ pc' = "clone2"
                  /\ UNCHANGED res
    /\ UNCHANGED <<col, ankiOpen, repo, backups, now, used>>

\* _clone1, line 1349: _clone2 writes and commits the repository. write_note
\* raises ValueError for a note whose cards are in distinct decks; the except
\* clause of _clone1 then cleans the target up and re-raises.
CloneWrite ==
    /\ pc = "clone2"
    /\ IF col.split
       THEN \E denied \in BOOLEAN :
            /\ target' = cleanup("Partial", loc.new, denied)
            /\ loc' = [loc EXCEPT !.denied = denied]
            /\ Return("clone", "ValueError")
            /\ UNCHANGED repo
       ELSE /\ repo' = clone2(col)
            /\ target' = "Repo"
            /\ pc' = "clone_close"
            /\ UNCHANGED <<res, loc>>
    /\ UNCHANGED <<col, ankiOpen, backups, now, pre, handles, used>>

\* _clone1, line 1350: col.close(save=False).
CloneClose ==
    /\ pc = "clone_close"
    /\ handles' = [handles EXCEPT !.col = "closed_nosave"]
    /\ pc' = "clone_tag"
    /\ UNCHANGED <<col, ankiOpen, target, repo, backups, now, loc, pre, res, used>>

\* _clone1, lines 1351-1355: tag the initial commit as LCA and return.
CloneTag ==
    /\ pc = "clone_tag"
    /\ repo' = create_tag(repo)
    /\ Return("clone", "ok")
    /\ UNCHANGED <<col, ankiOpen, target, backups, now, loc, pre, handles, used>>

\* ------------------------------------------------------------- git diff
\* The entries of `repo.commit("HEAD~1").diff(repo.commit("HEAD"))` between
\* tree A and tree B. git pairs a deleted path with an added path as a
\* rename: always when the contents are identical, possibly when they are
\* merely similar. A pairing is a set of <<a_path, b_path>>.
DeletedPaths(A, B) == FilesOf(A) \ FilesOf(B)
AddedPaths(A, B) == FilesOf(B) \ FilesOf(A)
ModifiedPaths(A, B) ==
    {p \in FilesOf(A) \cap FilesOf(B) : A.files[p] # B.files[p]}

Exact(A, B, d, a) == A.files[d] = B.files[a]

Pairings(A, B) ==
    LET D == DeletedPaths(A, B)
        Ad == AddedPaths(A, B)
        HasExact(d) == \E a \in Ad : Exact(A, B, d, a)
        IsExact(a) == \E d \in D : Exact(A, B, d, a)
    IN {m \in SUBSET (D \X Ad) :
          /\ \A x, y \in m : (x[1] = y[1] \/ x[2] = y[2]) => x = y
          /\ \A x \in m : Exact(A, B, x[1], x[2])
                          \/ (~HasExact(x[1]) /\ ~IsExact(x[2]))
          /\ \A d \in D, a \in Ad :
                Exact(A, B, d, a) =>
                    (\E x \in m : x[1] = d) \/ (\E x \in m : x[2] = a)}

DiffIndex(A, B, m) ==
    {[change_type |-> "D", a_path |-> p, b_path |-> p] :
        p \in {d \in DeletedPaths(A, B) : ~\E x \in m : x[1] = d}}
    \cup {[change_type |-> "A", a_path |-> p, b_path |-> p] :
        p \in {a \in AddedPaths(A, B) : ~\E x \in m : x[2] = a}}
    \cup {[change_type |-> "M", a_path |-> p, b_path |-> p] :
        p \in ModifiedPaths(A, B)}
    \cup {[change_type |-> "R", a_path |-> x[1], b_path |-> x[2]] : x \in m}

\* Entries in path order.
RECURSIVE SortedDiffs(_)
SortedDiffs(S) ==
    IF S = {} THEN <<>>
    ELSE LET d == CHOOSE x \in S :
                    \A y \in S : x = y \/ PathLt(x.b_path, y.b_path)
         IN <<d>> \o SortedDiffs(S \ {d})

\* parse_note: the DeckNote of the file a delta points at.
parse_note(delta) == delta.file

\* Paths are records.  A note file written by ki has a slug and a number, any
\* other file has a name; a file below the root has the components of its
\* directory in `dir`.
IGNORE_DIRS == {".git", ".ki", "_media"}
IGNORE_FILES == {".gitignore", ".gitmodules", "models.json"}
ModelsPath == [name |-> "models.json"]
PathName(path) ==
    IF "name" \in DOMAIN path THEN path.name ELSE "<slug>.md"
PathParts(path) ==
    (IF "dir" \in DOMAIN path THEN {path.dir[i] : i \in DOMAIN path.dir}
     ELSE {}) \cup {PathName(path)}

\* F.isfile, and lines 249-265: a note file is a file with the header of a
\* note, of which the guid line is kept.
isfile(file) == file # NoFile
is_anki_note(file) == "guid" \in DOMAIN file

\* Variant: the directories above the file are not looked at.
is_ignorable_name_only(root, path) ==
    \/ PathName(path) \in IGNORE_FILES \cup IGNORE_DIRS
    \/ LET file == FileAt(root, path)
       IN isfile(file) /\ ~is_anki_note(file)

\* Lines 268-292.
is_ignorable(root, path) ==
    \/ PathName(path) \in IGNORE_FILES \cup IGNORE_DIRS
    \/ PathParts(path) \cap IGNORE_DIRS # {}
    \/ LET file == FileAt(root, path)
       IN isfile(file) /\ ~is_anki_note(file)

\* GitChangeType(d.change_type)
GitChangeType(change_type) ==
    CASE change_type = "A" -> "ADDED"
      [] change_type = "D" -> "DELETED"
      [] change_type = "M" -> "MODIFIED"
      [] change_type = "R" -> "RENAMED"
      [] change_type = "T" -> "TYPECHANGED"

\* Lines 295-323: the deltas and warnings of one diff entry.  Parsing the A
\* side of a rename that is no file of the A snapshot raises.
mungediff(A, B, d) ==
    LET a_delta == [status |-> "DELETED", file |-> FileAt(A, d.a_path),
                    relpath |-> d.a_path]
        b_delta == [status |-> "ADDED", file |-> FileAt(B, d.b_path),
                    relpath |-> d.b_path]
    IN IF is_ignorable(A, d.a_path) \/ is_ignorable(B, d.b_path) THEN <<>>
       ELSE IF d.change_type = "D"
       THEN IF ~isfile(FileAt(A, d.a_path))
            THEN <<[warning |-> "DeletedFileNotFoundWarning",
                    relpath |-> d.a_path]>>
            ELSE <<a_delta>>
       ELSE IF ~isfile(FileAt(B, d.b_path))
       THEN <<[warning |-> "DiffTargetFileNotFoundWarning",
               relpath |-> d.b_path]>>
       ELSE IF d.change_type = "R" /\ ~isfile(FileAt(A, d.a_path))
       THEN <<[raised |-> "FileNotFoundError", relpath |-> d.a_path]>>
       ELSE IF d.change_type = "R"
               /\ parse_note(a_delta).guid # parse_note(b_delta).guid
       THEN <<a_delta, b_delta>>
       ELSE <<[status |-> GitChangeType(d.change_type),
               file |-> FileAt(B, d.b_path), relpath |-> d.b_path]>>

\* diff2: chain(*map(mungediff, diffidx)).
RECURSIVE Chain(_, _, _)
Chain(A, B, diffs) ==
    IF diffs = <<>> THEN <<>>
    ELSE mungediff(A, B, Head(diffs)) \o Chain(A, B, Tail(diffs))

diff2(A, B, m) ==
    LET models_diff == IF A.models = B.models THEN <<>>
                       ELSE <<[change_type |-> "M", a_path |-> ModelsPath,
                               b_path |-> ModelsPath]>>
    IN Chain(A, B, models_diff \o SortedDiffs(DiffIndex(A, B, m)))

\* Line 1568: F.part(lambda x: isinstance(x, Delta), ...), the deltas among
\* the deltas and warnings.
Deltas(xs) == SelectSeq(xs, LAMBDA x : "status" \in DOMAIN x)

\* ------------------------------------------------------ write_collection
\* Variant: no note is found by its guid.
get_note_metadata_none(notes) == <<>>

\* get_note_metadata: guid -> nid; a later row replaces an earlier one.
get_note_metadata(notes) ==
    [g \in {n.guid : n \in notes} |->
        LET same == {n \in notes : n.guid = g}
        IN (CHOOSE n \in same : \A o \in same : o.nid <= n.nid).nid]

\* Variant: every notetype there is gets added.
add_models_all(bytes, models) == [bytes EXCEPT !.models = Models]

\* add_model for every notetype of the tree's models.json files.
add_models(bytes, models) == [bytes EXCEPT !.models = bytes.models \cup models]

Deletes(deltas) == SelectSeq(deltas, LAMBDA d : d.status = "DELETED")
Upserts(deltas) == SelectSeq(deltas, LAMBDA d : d.status # "DELETED")

SeqRange(s) == {s[i] : i \in DOMAIN s}

\* Lines 1618-1622: the guids of the DELETED deltas that the collection has.
del_guids(deltas, guids) ==
    {parse_note(d).guid : d \in SeqRange(Deletes(deltas))} \cap DOMAIN guids

remove_notes(notes, nids) == {n \in notes : n.nid \notin nids}

\* Variant: every new note takes the same note id.
RECURSIVE push_notes_one_nid(_, _, _, _, _)
push_notes_one_nid(notes, models, guids, new_nid, decknotes) ==
    IF decknotes = <<>> THEN [err |-> "none", notes |-> notes]
    ELSE LET dn == Head(decknotes) IN
         IF dn.model \notin models
         THEN [err |-> "MissingNotetypeError", notes |-> notes]
         ELSE IF dn.guid \in DOMAIN guids
         THEN LET nid == guids[dn.guid] IN
              push_notes_one_nid({IF n.nid = nid
                          THEN [n EXCEPT !.val = dn.val, !.model = dn.model]
                          ELSE n : n \in notes},
                         models, guids, new_nid, Tail(decknotes))
         ELSE push_notes_one_nid(notes \cup {[nid |-> new_nid, guid |-> dn.guid,
                                      val |-> dn.val, model |-> dn.model]},
                         models, guids, new_nid, Tail(decknotes))

\* push_note / update_note for each DeckNote in turn. The result is the notes
\* of the collection, or the error that was raised.
RECURSIVE push_notes(_, _, _, _, _)
push_notes(notes, models, guids, new_nid, decknotes) ==
    IF decknotes = <<>> THEN [err |-> "none", notes |-> notes]
    ELSE LET dn == Head(decknotes) IN
         IF dn.model \notin models
         THEN [err |-> "MissingNotetypeError", notes |-> notes]
         ELSE IF dn.guid \in DOMAIN guids
         THEN LET nid == guids[dn.guid] IN
              push_notes({IF n.nid = nid
                          THEN [n EXCEPT !.val = dn.val, !.model = dn.model]
                          ELSE n : n \in notes},
                         models, guids, new_nid, Tail(decknotes))
         ELSE push_notes(notes \cup {[nid |-> new_nid, guid |-> dn.guid,
                                      val |-> dn.val, model |-> dn.model]},
                         models, guids, new_nid + 1, Tail(decknotes))

DeckNotes(deltas) == [i \in DOMAIN deltas |-> parse_note(deltas[i])]

\* Variant: the upserts are applied first, the deletes after them.
apply_deltas_upserts_first(bytes, models, deltas, timestamp_ms) ==
    LET withmodels == add_models(bytes, models)
        guids == get_note_metadata(withmodels.notes)
        r == push_notes(withmodels.notes, withmodels.models, guids,
                        timestamp_ms, DeckNotes(Upserts(deltas)))
        dels == del_guids(deltas, guids)
    IN [err |-> r.err,
        bytes |-> [withmodels EXCEPT
                     !.notes = {n \in r.notes : n.guid \notin dels}]]

\* Lines 1601-1629 on the temporary copy: notetypes, deletes, upserts.
apply_deltas(bytes, models, deltas, timestamp_ms) ==
    LET withmodels == add_models(bytes, models)
        guids == get_note_metadata(withmodels.notes)
        dels == del_guids(deltas, guids)
        kept == remove_notes(withmodels.notes, {guids[g] : g \in dels})
        live == [g \in DOMAIN guids \ dels |-> guids[g]]
        r == push_notes(kept, withmodels.models, live, timestamp_ms,
                        DeckNotes(Upserts(deltas)))
    IN [err |-> r.err, bytes |-> [withmodels EXCEPT !.notes = r.notes]]

\* ------------------------------------------------------------------- push
Last(s) == s[Len(s)]

\* backup: copy the collection to .ki/backups/<timestamp>--<md5sum>.anki2
\* unless a file of that name is there already.
SecLen == 4
Timestamp(ms) == ms \div SecLen
backup(files, bytes, ms) ==
    LET name == [ts |-> Timestamp(ms), md5 |-> md5(bytes)]
    IN IF \E f \in files : f.ts = name.ts /\ f.md5 = name.md5 THEN files
       ELSE files \cup {[ts |-> name.ts, md5 |-> name.md5, bytes |-> bytes]}

\* Variant: the hashes file is staged but never committed.
commit_hashes_file_staged(r, index) == r

\* commit_hashes_file: index.add(.ki/hashes); index.commit(...). The commit
\* writes the whole index as a tree, which fails while entries are unmerged.
commit_hashes_file(r, index) ==
    [r EXCEPT !.head = r.head + 1, !.headHashes = r.wtHashes,
              !.headTree = index]

\* Variant: the first line of .ki/hashes is read instead of the last.
up_to_date_first(hashes, md5sum) == Contains(Head(hashes), md5sum)

\* Lines 1428-1431 and 1552-1555: is the checksum of the collection in the
\* last non-empty line of .ki/hashes?
up_to_date(hashes, md5sum) == Contains(Last(hashes), md5sum)

\* M.kirepo(F.cwd()), lines 1426 and 1550: the ki repository that the
\* working directory lies in, or NotKiRepoError when there is no .ki
\* directory.
kirepo(dir) == IF dir = "Repo" THEN "ok" ELSE "NotKiRepoError"

\* Variant: the collection is opened before the repository is looked for.
PushStartOpensFirst ==
    /\ pc = "idle"
    /\ Budget
    /\ pre' = Snapshot
    /\ IF lock(ankiOpen) # "ok"
       THEN /\ Return("push", lock(ankiOpen))
            /\ UNCHANGED <<loc, handles>>
       ELSE /\ handles' = [handles EXCEPT !.col = "open"]
            /\ loc' = [NoLoc EXCEPT !.md5sum = md5(col)]
            /\ IF kirepo(target) # "ok"
               THEN Return("push", kirepo(target))
               ELSE IF ~up_to_date(repo.wtHashes, md5(col))
               THEN Return("push", "UpdatesRejectedError")
               ELSE pc' = "push_diff" /\ UNCHANGED res
    /\ UNCHANGED <<col, ankiOpen, target, repo, backups, now, used>>

\* _push, lines 1550-1556: find the repository, open the collection, compare
\* checksums.
PushStart ==
    /\ pc = "idle"
    /\ Budget
    /\ pre' = Snapshot
    /\ IF kirepo(target) # "ok"
       THEN /\ Return("push", kirepo(target))
            /\ UNCHANGED <<loc, handles>>
       ELSE IF lock(ankiOpen) # "ok"
       THEN /\ Return("push", lock(ankiOpen))
            /\ UNCHANGED <<loc, handles>>
       ELSE /\ handles' = [handles EXCEPT !.col = "open"]
            /\ loc' = [NoLoc EXCEPT !.md5sum = md5(col)]
            /\ IF ~up_to_date(repo.wtHashes, md5(col))
               THEN Return("push", "UpdatesRejectedError")
               ELSE pc' = "push_diff" /\ UNCHANGED res
    /\ UNCHANGED <<col, ankiOpen, target, repo, backups, now, used>>

\* Variant: no early return when there is nothing to push.
PushDiffNoReturn ==
    /\ pc = "push_diff"
    /\ IF col.split
       THEN /\ Return("push", "ValueError")
            /\ UNCHANGED <<loc, handles, used>>
       ELSE \E m \in Pairings(write_repository(col), repo.headTree) :
            LET deltas == Deltas(diff2(write_repository(col), repo.headTree, m))
            IN /\ loc' = [loc EXCEPT !.deltas = deltas]
               /\ used' = [used EXCEPT !.ops = used.ops + 1]
               /\ pc' = "push_build"
               /\ UNCHANGED <<res, handles>>
    /\ UNCHANGED <<col, ankiOpen, target, repo, backups, now, pre>>

\* cp_repo, lines 209-218: copy the whole working directory, then
\* git reset --hard <sha>. Every file the commit tracks is as in the commit;
\* a file of the working directory that the commit does not track is left
\* where it is (reset --hard does not remove untracked files).
cp_repo(wt, tree) ==
    [tree EXCEPT !.files =
        [p \in DOMAIN tree.files \cup DOMAIN wt.files |->
            IF p \in DOMAIN tree.files THEN tree.files[p] ELSE wt.files[p]]]

\* _push, line 1558: head_kirepo, the copy of the working repository reset
\* to HEAD.
head_kirepo == cp_repo(repo.wt, repo.headTree)

\* _push, lines 1558-1579: snapshot HEAD, clone the collection into an
\* ephemeral repository, copy the snapshot over it, diff.
PushDiff ==
    /\ pc = "push_diff"
    /\ IF col.split
       THEN /\ Return("push", "ValueError")
            /\ UNCHANGED <<loc, handles, used>>
       ELSE \E m \in Pairings(write_repository(col), head_kirepo) :
            LET deltas == Deltas(diff2(write_repository(col), head_kirepo, m))
            IN IF Len(deltas) = 0
               THEN /\ handles' = [handles EXCEPT !.col = "closed_nosave"]
                    /\ Return("push", "UP_TO_DATE")
                    /\ UNCHANGED <<loc, used>>
               ELSE /\ loc' = [loc EXCEPT !.deltas = deltas]
                    /\ used' = [used EXCEPT !.ops = used.ops + 1]
                    /\ pc' = "push_build"
                    /\ UNCHANGED <<res, handles>>
    /\ UNCHANGED <<col, ankiOpen, target, repo, backups, now, pre>>

\* Variant: the deltas are applied to the live collection, not to a copy.
PushBuildInPlace ==
    /\ pc = "push_build"
    /\ LET r == apply_deltas(col, repo.headTree.models, loc.deltas, now + 1)
       IN /\ loc' = [loc EXCEPT !.tempfile = col, !.tempcol = r.bytes,
                                !.applied = (r.err = "none")]
          /\ col' = r.bytes
          /\ handles' = [handles EXCEPT !.tempcol = "open"]
          /\ now' = now + MaxFiles
          /\ IF r.err # "none"
             THEN Return("push", r.err)
             ELSE pc' = "push_close_temp" /\ UNCHANGED res
    /\ UNCHANGED <<ankiOpen, target, repo, backups, pre, used>>

\* write_collection, lines 1593-1629: copy the collection, open the copy,
\* add notetypes, apply deletes, apply upserts.
PushBuild ==
    /\ pc = "push_build"
    /\ LET r == apply_deltas(col, repo.headTree.models, loc.deltas, now + 1)
       IN /\ loc' = [loc EXCEPT !.tempfile = col, !.tempcol = r.bytes,
                                !.applied = (r.err = "none")]
          /\ handles' = [handles EXCEPT !.tempcol = "open"]
          /\ now' = now + MaxFiles
          /\ IF r.err # "none"
             THEN Return("push", r.err)
             ELSE pc' = "push_close_temp" /\ UNCHANGED res
    /\ UNCHANGED <<col, ankiOpen, target, repo, backups, pre, used>>

\* write_collection, line 1632: tempcol.close(save=True).
PushCloseTemp ==
    /\ pc = "push_close_temp"
    /\ loc' = [loc EXCEPT !.tempfile = [loc.tempcol EXCEPT !.mod = now]]
    /\ handles' = [handles EXCEPT !.tempcol = "closed_save"]
    /\ pc' = "push_backup"
    /\ UNCHANGED <<col, ankiOpen, target, repo, backups, now, pre, res, used>>

\* Variant: the backup is taken of the new collection file.
PushBackupNew ==
    /\ pc = "push_backup"
    /\ backups' = backup(backups, loc.tempfile, now)
    /\ loc' = [loc EXCEPT !.backedup = TRUE]
    /\ pc' = "push_overwrite"
    /\ UNCHANGED <<col, ankiOpen, target, repo, now, pre, res, handles, used>>

\* write_collection, line 1635: backup(kirepo).
PushBackup ==
    /\ pc = "push_backup"
    /\ backups' = backup(backups, col, now)
    /\ loc' = [loc EXCEPT !.backedup = TRUE]
    /\ pc' = "push_overwrite"
    /\ UNCHANGED <<col, ankiOpen, target, repo, now, pre, res, handles, used>>

\* write_collection, line 1636: F.copyfile(new_col_file, kirepo.col_file).
PushOverwrite ==
    /\ pc = "push_overwrite"
    /\ col' = loc.tempfile
    /\ pc' = "push_media"
    /\ UNCHANGED <<ankiOpen, target, repo, backups, now, loc, pre, res, handles, used>>

\* write_collection, lines 1639-1650: add media through the handle opened at
\* the start, then col.close(save=True), which may rewrite the file.
PushMedia ==
    /\ pc = "push_media"
    /\ \E saved \in BOOLEAN :
          IF saved
          THEN col' = [col EXCEPT !.mod = now + 1] /\ now' = now + 1
          ELSE UNCHANGED <<col, now>>
    /\ handles' = [handles EXCEPT !.col = "closed_save"]
    /\ pc' = "push_append"
    /\ UNCHANGED <<ankiOpen, target, repo, backups, loc, pre, res, used>>

\* Variant: the checksum taken when push started is appended.
PushAppendStale ==
    /\ pc = "push_append"
    /\ repo' = [repo EXCEPT
                  !.wtHashes = append_md5sum(repo.wtHashes, ColName, loc.md5sum)]
    /\ pc' = "push_commit"
    /\ UNCHANGED <<col, ankiOpen, target, backups, now, loc, pre, res, handles, used>>

\* write_collection, line 1653: append the checksum of the collection.
PushAppend ==
    /\ pc = "push_append"
    /\ repo' = [repo EXCEPT
                  !.wtHashes = append_md5sum(repo.wtHashes, ColName, md5(col))]
    /\ pc' = "push_commit"
    /\ UNCHANGED <<col, ankiOpen, target, backups, now, loc, pre, res, handles, used>>

\* write_collection, line 1654: commit_hashes_file(kirepo).
PushCommit ==
    /\ pc = "push_commit"
    /\ IF repo.unmerged
       THEN Return("push", "UnmergedEntriesError") /\ UNCHANGED repo
       ELSE /\ repo' = commit_hashes_file(repo, repo.headTree)
            /\ pc' = "push_delete_tag"
            /\ UNCHANGED res
    /\ UNCHANGED <<col, ankiOpen, target, backups, now, loc, pre, handles, used>>

\* write_collection, line 1657: kirepo.repo.delete_tag(LCA).
PushDeleteTag ==
    /\ pc = "push_delete_tag"
    /\ repo' = delete_tag(repo)
    /\ pc' = "push_create_tag"
    /\ UNCHANGED <<col, ankiOpen, target, backups, now, loc, pre, res, handles, used>>

\* write_collection, lines 1658-1659: kirepo.repo.create_tag(LCA) at HEAD.
PushCreateTag ==
    /\ pc = "push_create_tag"
    /\ repo' = create_tag(repo)
    /\ Return("push", "NONTRIVIAL")
    /\ UNCHANGED <<col, ankiOpen, target, backups, now, loc, pre, handles, used>>

\* ------------------------------------------------------------------- pull
ConflictText == <<[md5 |-> <<"<<<<<<<">>, tag |-> ">>>>>>>"]>>

\* `git pull anki <branch>` of the LCA snapshot (tree T, hashes th, parent
\* the LCA commit) into the working repository r: a three-way merge with the
\* LCA commit as base. The result is git's output, the repository and the
\* index after the merge.
git_pull(r, T, th) ==
    LET B == r.lcaTree
        H == r.headTree
        All == FilesOf(B) \cup FilesOf(H) \cup FilesOf(T) \cup FilesOf(r.wt)
        touched == {p \in All : FileAt(T, p) # FileAt(B, p)
                                /\ FileAt(T, p) # FileAt(H, p)}
        touchModels == T.models # B.models /\ T.models # H.models
        touchHashes == th # r.lcaHashes /\ th # r.headHashes
        dirty == \/ \E p \in touched : FileAt(r.wt, p) # FileAt(H, p)
                 \/ touchModels /\ r.wt.models # H.models
                 \/ touchHashes /\ r.wtHashes # r.headHashes
        conflicts == {p \in touched : FileAt(H, p) # FileAt(B, p)}
        conflictModels == touchModels /\ H.models # B.models
        conflictHashes == touchHashes /\ r.headHashes # r.lcaHashes
        Pick(X, Y, cond(_)) ==
            LET keep == {p \in All : FileAt(IF cond(p) THEN X ELSE Y, p) # NoFile}
            IN [p \in keep |-> FileAt(IF cond(p) THEN X ELSE Y, p)]
        merged == [files |-> Pick(T, H, LAMBDA p : FileAt(H, p) = FileAt(B, p)),
                   models |-> IF H.models = B.models THEN T.models
                              ELSE H.models]
        mergedHashes == IF r.headHashes = r.lcaHashes THEN th
                        ELSE r.headHashes
        newwt == [files |-> Pick(T, r.wt, LAMBDA p : p \in touched \ conflicts),
                  models |-> IF touchModels /\ ~conflictModels THEN T.models
                             ELSE r.wt.models]
        newwtHashes == IF ~touchHashes THEN r.wtHashes
                       ELSE IF conflictHashes THEN ConflictText ELSE th
    IN  IF r.unmerged
        THEN [out |-> "error: unmerged files", repo |-> r, index |-> H]
        ELSE IF dirty
        THEN [out |-> "Aborting", repo |-> r, index |-> H]
        ELSE IF T = B /\ th = r.lcaHashes
        THEN [out |-> "Already up to date", repo |-> r, index |-> H]
        ELSE IF r.head = r.lca
        THEN [out |-> "Fast-forward",
              repo |-> [r EXCEPT !.wt = newwt, !.wtHashes = newwtHashes,
                                 !.head = r.head + 1, !.headTree = T,
                                 !.headHashes = th],
              index |-> T]
        ELSE IF conflicts # {} \/ conflictModels \/ conflictHashes
        THEN [out |-> "CONFLICT",
              repo |-> [r EXCEPT !.wt = newwt, !.wtHashes = newwtHashes,
                                 !.unmerged = (conflicts # {}
                                               \/ conflictModels)],
              index |-> merged]
        ELSE [out |-> "Merge made",
              repo |-> [r EXCEPT !.wt = newwt, !.wtHashes = newwtHashes,
                                 !.head = r.head + 1, !.headTree = merged,
                                 !.headHashes = mergedHashes],
              index |-> merged]

\* Variant: the up-to-date path closes the collection with save=True.
PullStartSaving ==
    /\ pc = "idle"
    /\ target = "Repo"
    /\ pre' = Snapshot
    /\ IF lock(ankiOpen) # "ok"
       THEN /\ Return("pull", lock(ankiOpen))
            /\ UNCHANGED <<col, loc, handles>>
       ELSE /\ loc' = [NoLoc EXCEPT !.md5sum = md5(col)]
            /\ IF up_to_date(repo.wtHashes, md5(col))
               THEN /\ handles' = [handles EXCEPT !.col = "closed_save"]
                    /\ col' = [col EXCEPT !.mod = now + 1]
                    /\ Return("pull", "up_to_date")
               ELSE /\ handles' = [handles EXCEPT !.col = "open"]
                    /\ pc' = "pull_merge"
                    /\ UNCHANGED <<col, res>>
    /\ UNCHANGED <<ankiOpen, target, repo, backups, now, used>>

\* _pull1, lines 1426-1434: open the collection, compare checksums.
PullStart ==
    /\ pc = "idle"
    /\ pre' = Snapshot
    /\ IF kirepo(target) # "ok"
       THEN /\ Return("pull", kirepo(target))
            /\ UNCHANGED <<loc, handles>>
       ELSE IF lock(ankiOpen) # "ok"
       THEN /\ Return("pull", lock(ankiOpen))
            /\ UNCHANGED <<loc, handles>>
       ELSE /\ loc' = [NoLoc EXCEPT !.md5sum = md5(col)]
            /\ IF up_to_date(repo.wtHashes, md5(col))
               THEN /\ handles' = [handles EXCEPT !.col = "closed_nosave"]
                    /\ Return("pull", "up_to_date")
               ELSE /\ handles' = [handles EXCEPT !.col = "open"]
                    /\ pc' = "pull_merge"
                    /\ UNCHANGED res
    /\ UNCHANGED <<col, ankiOpen, target, repo, backups, now, used>>

\* _pull2, lines 1476-1516: snapshot the LCA, clone the collection, commit it
\* on top of the snapshot and pull the snapshot into the working repository.
PullMerge ==
    /\ pc = "pull_merge"
    /\ IF col.split
       THEN /\ Return("pull", "ValueError")
            /\ UNCHANGED <<loc, repo>>
       ELSE LET md5sum == md5(col)
                remote == clone2(col)
                g == git_pull(repo, remote.headTree, remote.headHashes)
            IN /\ repo' = g.repo
               /\ loc' = [loc EXCEPT !.md5sum = md5sum, !.out = g.out,
                                     !.head = repo.headHashes,
                                     !.index = g.index]
               /\ pc' = "pull_checkout"
               /\ UNCHANGED res
    /\ UNCHANGED <<col, ankiOpen, target, backups, now, pre, handles, used>>

\* Variant: the checksum is not verified after the merge.
PullCheckoutNoCheck ==
    /\ pc = "pull_checkout"
    /\ repo' = [repo EXCEPT !.wtHashes = loc.head]
    /\ pc' = "pull_append"
    /\ UNCHANGED <<col, ankiOpen, target, backups, now, loc, pre, res, handles, used>>

\* _pull2, lines 1521-1525: restore .ki/hashes from the pre-merge HEAD, then
\* verify that the collection did not change during the pull.
PullCheckout ==
    /\ pc = "pull_checkout"
    /\ repo' = [repo EXCEPT !.wtHashes = loc.head]
    /\ IF md5(col) # loc.md5sum
       THEN Return("pull", "CollectionChecksumError")
       ELSE pc' = "pull_append" /\ UNCHANGED res
    /\ UNCHANGED <<col, ankiOpen, target, backups, now, loc, pre, handles, used>>

\* _pull2, lines 1528-1529: append the checksum unless the merge aborted.
PullAppend ==
    /\ pc = "pull_append"
    /\ IF loc.out # "Aborting"
       THEN /\ repo' = [repo EXCEPT !.wtHashes =
                          append_md5sum(repo.wtHashes, ColName, loc.md5sum)]
            /\ pc' = "pull_commit"
       ELSE /\ pc' = "pull_close"
            /\ UNCHANGED repo
    /\ UNCHANGED <<col, ankiOpen, target, backups, now, loc, pre, res, handles, used>>

\* Variant: pull moves the LCA tag to the commit of the hashes file.
PullCommitTags ==
    /\ pc = "pull_commit"
    /\ IF repo.unmerged
       THEN Return("pull", "UnmergedEntriesError") /\ UNCHANGED repo
       ELSE /\ repo' = create_tag(commit_hashes_file(repo, loc.index))
            /\ pc' = "pull_close"
            /\ UNCHANGED res
    /\ UNCHANGED <<col, ankiOpen, target, backups, now, loc, pre, handles, used>>

\* _pull2, line 1530: commit_hashes_file(kirepo).
PullCommit ==
    /\ pc = "pull_commit"
    /\ IF repo.unmerged
       THEN Return("pull", "UnmergedEntriesError") /\ UNCHANGED repo
       ELSE /\ repo' = commit_hashes_file(repo, loc.index)
            /\ pc' = "pull_close"
            /\ UNCHANGED res
    /\ UNCHANGED <<col, ankiOpen, target, backups, now, loc, pre, handles, used>>

\* _pull1, line 1437: col.close(save=False).
PullClose ==
    /\ pc = "pull_close"
    /\ handles' = [handles EXCEPT !.col = "closed_nosave"]
    /\ Return("pull", IF loc.out = "Aborting" THEN "aborted" ELSE "merged")
    /\ UNCHANGED <<col, ankiOpen, target, repo, backups, now, loc, pre, used>>

\* ------------------------------------------------------------ environment
\* The user edits the working tree: changes the fields of a note file,
\* removes it, moves it, or writes a new note file with a guid that no other
\* file carries.
Edits(t) ==
    {[t EXCEPT !.files[p] = [t.files[p] EXCEPT !.val = v]] :
        p \in FilesOf(t), v \in Vals}
    \cup {[t EXCEPT !.files = Remove(t.files, p)] : p \in FilesOf(t)}
    \cup {[t EXCEPT !.files = Write(Remove(t.files, p), q, t.files[p])] :
        p \in FilesOf(t), q \in UserPaths \ FilesOf(t)}
    \cup {[t EXCEPT !.files = Write(t.files, get_note_path(t.files, v, 0),
                                     [guid |-> g, val |-> v, model |-> m])] :
        g \in {x \in GUIDs : /\ Cardinality(FilesOf(t)) < MaxFiles
                              /\ \A p \in FilesOf(t) : t.files[p].guid # x},
        v \in Vals, m \in Models}

UserEdit ==
    /\ pc = "idle"
    /\ target = "Repo"
    /\ ~ankiOpen
    /\ Budget
    /\ \E t \in Edits(repo.wt) :
          /\ t # repo.wt
          /\ repo' = [repo EXCEPT !.wt = t]
    /\ used' = [used EXCEPT !.ops = used.ops + 1, !.edited = TRUE]
    /\ UNCHANGED <<col, ankiOpen, target, backups, now, pc, loc, pre, res, handles>>

\* The user adds a notetype to models.json.
UserEditModels ==
    /\ pc = "idle"
    /\ target = "Repo"
    /\ ~ankiOpen
    /\ Budget
    /\ \E m \in Models \ repo.wt.models :
          repo' = [repo EXCEPT !.wt.models = repo.wt.models \cup {m}]
    /\ used' = [used EXCEPT !.ops = used.ops + 1, !.edited = TRUE]
    /\ UNCHANGED <<col, ankiOpen, target, backups, now, pc, loc, pre, res, handles>>

\* The user commits everything (git add --all; git commit), which also
\* concludes an unfinished merge.
UserCommit ==
    /\ pc = "idle"
    /\ target = "Repo"
    /\ ~ankiOpen
    /\ repo.wt # repo.headTree \/ repo.wtHashes # repo.headHashes \/ repo.unmerged
    /\ repo' = [repo EXCEPT !.head = repo.head + 1, !.headTree = repo.wt,
                             !.headHashes = repo.wtHashes, !.unmerged = FALSE]
    /\ UNCHANGED <<col, ankiOpen, target, backups, now, pc, loc, pre, res, handles, used>>

\* Another program (Anki) changes the collection between two operations.
Modifications(bytes) ==
    {[bytes EXCEPT !.notes = (bytes.notes \ {n}) \cup {[n EXCEPT !.val = v]}] :
        n \in bytes.notes, v \in Vals}
    \cup {[bytes EXCEPT !.notes = bytes.notes \ {n}] : n \in bytes.notes}
    \cup {[bytes EXCEPT !.notes = bytes.notes \cup
              {[nid |-> now + 1, guid |-> g, val |-> v, model |-> m]}] :
            g \in {x \in GUIDs : Cardinality(bytes.notes) < MaxFiles
                                 /\ \A n \in bytes.notes : n.guid # x},
            v \in Vals, m \in bytes.models}
    \cup {[bytes EXCEPT !.split = ~bytes.split]}

ExternalModify ==
    /\ pc = "idle"
    /\ ~ankiOpen
    /\ Budget
    /\ \/ \E b \in Modifications(col) :
             /\ b # col
             /\ col' = [b EXCEPT !.mod = now + 1]
       \/ \E f \in backups : f.bytes # col /\ col' = f.bytes
    /\ now' = now + 1
    /\ used' = [used EXCEPT !.ops = used.ops + 1, !.modified = TRUE,
                             !.synced = FALSE]
    /\ UNCHANGED <<ankiOpen, target, repo, backups, pc, loc, pre, res, handles>>

\* Another program opens or closes the collection. Each opening counts
\* against MaxOps.
AnkiToggle ==
    /\ pc = "idle"
    /\ ankiOpen \/ Budget
    /\ ankiOpen' = ~ankiOpen
    /\ used' = IF ankiOpen THEN used ELSE [used EXCEPT !.ops = used.ops + 1]
    /\ UNCHANGED <<col, target, repo, backups, now, pc, loc, pre, res, handles>>

\* The outcomes of an operation that completed: clone; pull (up to date, or
\* merged and recorded); push.
Success == {"ok", "up_to_date", "merged", "UP_TO_DATE", "NONTRIVIAL"}

\* The process of the operation exits; its handles go with it. `synced`
\* remembers whether the last operation was a successful one and the
\* collection has not been modified since.
ProcessExit ==
    /\ pc = "returned"
    /\ pc' = "idle"
    /\ loc' = NoLoc
    /\ pre' = NoPre
    /\ res' = NoRes
    /\ handles' = NoHandles
    /\ used' = [used EXCEPT !.synced = res.outcome \in Success]
    /\ UNCHANGED <<col, ankiOpen, target, repo, backups, now>>

\* ------------------------------------------------------------ specification
InitNotes == {[nid |-> 1, guid |-> "g1", val |-> 1, model |-> "Basic"]}
InitCol == [notes |-> InitNotes, models |-> {"Basic"}, mod |-> 1, split |-> FALSE]

Init ==
    /\ col = InitCol
    /\ ankiOpen = FALSE
    /\ target \in {"NoPath", "EmptyDir", "Dir"}
    /\ repo = NoRepo
    /\ backups = {}
    /\ now = 1
    /\ pc = "idle"
    /\ loc = NoLoc
    /\ pre = NoPre
    /\ res = NoRes
    /\ handles = NoHandles
    /\ used = [ops |-> 0, edited |-> FALSE, modified |-> FALSE,
               synced |-> FALSE]

Next ==
    \/ CloneStart \/ CloneWrite \/ CloneClose \/ CloneTag
    \/ PullStart \/ PullMerge \/ PullCheckout \/ PullAppend \/ PullCommit
    \/ PullClose
    \/ PushStart \/ PushDiff \/ PushBuild \/ PushCloseTemp \/ PushBackup
    \/ PushOverwrite \/ PushMedia \/ PushAppend \/ PushCommit
    \/ PushDeleteTag \/ PushCreateTag
    \/ UserEdit \/ UserEditModels \/ UserCommit
    \/ ExternalModify \/ AnkiToggle \/ ProcessExit

Spec == Init /\ [][Next]_vars

\* ------------------------------------------- a second program at any time
\* The running operation holds the exclusive transaction on the collection
\* from M.collection until it closes the collection or its process exits.
Holding == handles.col = "open"

\* Another program (Anki, or a second ki process) tries to open the
\* collection, at any moment: it gets the transaction unless lock() raises.
\* Each opening counts against MaxOps.
PeerOpen ==
    /\ ~ankiOpen
    /\ Budget
    /\ lock(Holding) = "ok"
    /\ ankiOpen' = TRUE
    /\ used' = [used EXCEPT !.ops = used.ops + 1]
    /\ UNCHANGED <<col, target, repo, backups, now, pc, loc, pre, res, handles>>

\* The other program writes to the collection it has opened.
PeerModify ==
    /\ ankiOpen
    /\ Budget
    /\ \E b \in Modifications(col) :
          /\ b # col
          /\ col' = [b EXCEPT !.mod = now + 1]
    /\ now' = now + 1
    /\ used' = [used EXCEPT !.ops = used.ops + 1, !.modified = TRUE,
                             !.synced = FALSE]
    /\ UNCHANGED <<ankiOpen, target, repo, backups, pc, loc, pre, res, handles>>

\* The other program closes the collection (unlock).
PeerClose ==
    /\ ankiOpen
    /\ ankiOpen' = FALSE
    /\ UNCHANGED <<col, target, repo, backups, now, pc, loc, pre, res, handles, used>>

\* The operations and the user as in Next; the other program acts through
\* PeerOpen, PeerModify and PeerClose at any moment instead of between
\* operations only.
NextLock ==
    \/ CloneStart \/ CloneWrite \/ CloneClose \/ CloneTag
    \/ PullStart \/ PullMerge \/ PullCheckout \/ PullAppend \/ PullCommit
    \/ PullClose
    \/ PushStart \/ PushDiff \/ PushBuild \/ PushCloseTemp \/ PushBackup
    \/ PushOverwrite \/ PushMedia \/ PushAppend \/ PushCommit
    \/ PushDeleteTag \/ PushCreateTag
    \/ UserEdit \/ UserEditModels \/ UserCommit
    \/ PeerOpen \/ PeerModify \/ PeerClose \/ ProcessExit

SpecLock == Init /\ [][NextLock]_vars

\* ------------------------------------ the collection replaced during a pull
\* The collection file is overwritten (a file copy, which no SQLite lock
\* stops) while a pull is between opening the collection and verifying its
\* checksum.
ColReplaced ==
    /\ pc \in {"pull_merge", "pull_checkout"}
    /\ Budget
    /\ \E b \in Modifications(col) :
          /\ b # col
          /\ col' = [b EXCEPT !.mod = now + 1]
    /\ now' = now + 1
    /\ used' = [used EXCEPT !.ops = used.ops + 1, !.modified = TRUE,
                             !.synced = FALSE]
    /\ UNCHANGED <<ankiOpen, target, repo, backups, pc, loc, pre, res, handles>>

\* Clone, pull, the user and the out-of-band modifications as in Next, and the
\* overwrite during a pull; no push.
NextRace ==
    \/ CloneStart \/ CloneWrite \/ CloneClose \/ CloneTag
    \/ PullStart \/ PullMerge \/ PullCheckout \/ PullAppend \/ PullCommit
    \/ PullClose
    \/ UserEdit \/ UserCommit
    \/ ExternalModify \/ ColReplaced \/ ProcessExit

SpecRace == Init /\ [][NextRace]_vars

\* ------------------------------------------------------------- properties
Returned(op, outcome) == pc = "returned" /\ res.op = op /\ res.outcome = outcome
Succeeded == pc = "returned" /\ res.outcome \in Success
Failed(op) == pc = "returned" /\ res.op = op /\ res.outcome \notin Success

PullPcs == {"pull_merge", "pull_checkout", "pull_append", "pull_commit",
            "pull_close"}
WritePcs == {"push_build", "push_close_temp", "push_backup", "push_overwrite",
             "push_media", "push_append", "push_commit", "push_delete_tag",
             "push_create_tag"}
PushPcs == {"push_diff"} \cup WritePcs

\* The operation in progress (or just returned) found the checksum of the
\* collection missing from the last line of .ki/hashes when it started.
StaleAtStart == Last(pre.repo.wtHashes).md5 # md5(pre.col)

\* C1: after every successful clone, pull or push (an up-to-date one
\* included), the last line of .ki/hashes holds the MD5 of the live
\* collection as it is when the operation returns.
C1_LastLineIsChecksum ==
    Succeeded => Last(repo.wtHashes).md5 = md5(col)

\* C1 witness: a push that rewrote the collection returned, after the
\* collection had been modified out of band and pulled.
C1_Witness ==
    /\ Returned("push", "NONTRIVIAL")
    /\ used.modified
    /\ col # pre.col
    /\ Last(repo.wtHashes).md5 = md5(col)

\* C2: a push that opened the collection fails with UpdatesRejectedError
\* exactly when the MD5 of the collection is not in the last line of
\* .ki/hashes; a rejected push leaves the collection, the hashes file, the
\* backups, HEAD and the LCA tag as they were; and a push that directly
\* follows a successful clone, pull or push, with no modification of the
\* collection in between, is not rejected.
C2_RejectedIffStale ==
    /\ (pc \in PushPcs \/ (pc = "returned" /\ res.op = "push"
                           /\ res.outcome \notin {"SQLiteLockError",
                                                   "NotKiRepoError"}))
          => (res.outcome = "UpdatesRejectedError" <=> StaleAtStart)
    /\ Returned("push", "UpdatesRejectedError")
          => /\ col = pre.col
             /\ repo = pre.repo
             /\ backups = pre.backups
             /\ ~used.synced

\* C2 witness: a push was rejected after an out-of-band modification.
C2_Witness ==
    /\ Returned("push", "UpdatesRejectedError")
    /\ used.modified
    /\ StaleAtStart

\* C3: the live collection is overwritten only after the deltas were applied
\* to the temporary copy, the copy was closed with save, and the backup ran;
\* a push that ends before the overwrite leaves the collection as it was.
C3_OverwriteComesLast ==
    [][/\ (col' # col /\ pc \in PushPcs)
            => \/ /\ pc = "push_overwrite"
                  /\ loc.applied
                  /\ handles.tempcol = "closed_save"
                  /\ loc.backedup
                  /\ col' = loc.tempfile
               \/ pc = "push_media"
       /\ (pc \in {"idle", "push_diff", "push_build", "push_close_temp",
                   "push_backup"}
           /\ pc' = "returned" /\ res'.op = "push")
            => col' = pre'.col
       /\ pc' \in {"push_diff", "push_build", "push_close_temp", "push_backup",
                   "push_overwrite"}
            => col' = pre'.col]_vars

\* C3 witness: the overwrite has happened, with a changed collection, after
\* the backup.
C3_Witness ==
    /\ pc = "push_media"
    /\ col # pre.col
    /\ loc.backedup
    /\ \E f \in backups : f.bytes = pre.col

\* C4: a successful non-trivial push appends exactly one line to .ki/hashes,
\* the MD5 of the collection as it is at the end, commits the hashes file, and
\* deletes the LCA tag and re-creates it at the new HEAD.
C4_NontrivialPushRecords ==
    /\ pc = "push_create_tag"
          => repo.lca = NoTag /\ repo.headHashes = repo.wtHashes
    /\ Returned("push", "NONTRIVIAL")
          => /\ repo.wtHashes = pre.repo.wtHashes
                                   \o <<[md5 |-> md5(col), tag |-> ColName]>>
             /\ repo.headHashes = repo.wtHashes
             /\ repo.head = pre.repo.head + 1
             /\ repo.headTree = pre.repo.headTree
             /\ repo.lca = repo.head
             /\ repo.lcaTree = repo.headTree
             /\ repo.lcaHashes = repo.headHashes

\* C4 witness: a non-trivial push returned and the tag moved.
C4_Witness ==
    /\ Returned("push", "NONTRIVIAL")
    /\ repo.lca # pre.repo.lca
    /\ Len(repo.wtHashes) = Len(pre.repo.wtHashes) + 1

\* C5: when the deltas left after filtering are none, push returns
\* UP_TO_DATE and changes neither the collection, the repository, the hashes
\* file, the backups nor the tag; write_collection runs only with deltas.
C5_NothingToPush ==
    /\ Returned("push", "UP_TO_DATE")
          => /\ col = pre.col
             /\ repo = pre.repo
             /\ backups = pre.backups
             /\ target = pre.target
    /\ pc \in WritePcs => Len(loc.deltas) > 0

\* C5 witness: push was up to date although HEAD differs from the collection
\* in a file the diff ignores.
C5_Witness ==
    /\ Returned("push", "UP_TO_DATE")
    /\ repo.headTree # write_repository(col)

\* C6: pull reports up to date exactly when the MD5 of the collection is in
\* the last line of .ki/hashes; then no merge runs, the working tree, HEAD and
\* the LCA tag are unchanged, .ki/hashes gains at most an appended line, and
\* the collection is closed without saving.
C6_UpToDatePull ==
    /\ pc \in PullPcs => StaleAtStart
    /\ Returned("pull", "up_to_date")
          => /\ ~StaleAtStart
             /\ repo.wt = pre.repo.wt
             /\ repo.head = pre.repo.head
             /\ repo.headTree = pre.repo.headTree
             /\ repo.lca = pre.repo.lca
             /\ repo.lcaTree = pre.repo.lcaTree
             /\ IsPrefix(pre.repo.wtHashes, repo.wtHashes)
             /\ Len(repo.wtHashes) <= Len(pre.repo.wtHashes) + 1
             /\ handles.col = "closed_nosave"
             /\ col = pre.col

\* C6 witness: an up-to-date pull in a repository that has pulled a
\* modification before.
C6_Witness ==
    /\ Returned("pull", "up_to_date")
    /\ used.modified
    /\ Len(repo.wtHashes) > 1

\* C7: from a fresh clone, with no edit of the working repository and no
\* modification of the collection, pulls and pushes change nothing: each
\* reports up to date, no merge and no write_collection runs, and the
\* collection, the repository, the hashes file, the tag and the backups stay
\* as the clone left them.
C7_NoOpCycle ==
    (target = "Repo" /\ repo.lca # NoTag /\ ~used.edited /\ ~used.modified)
        => /\ col = InitCol
           /\ repo.wt = write_repository(InitCol)
           /\ repo.headTree = repo.wt
           /\ repo.lcaTree = repo.wt
           /\ repo.head = 1
           /\ repo.lca = 1
           /\ repo.wtHashes = <<[md5 |-> md5(InitCol), tag |-> ColName]>>
           /\ repo.headHashes = repo.wtHashes
           /\ ~repo.unmerged
           /\ backups = {}
           /\ pc \notin PullPcs \cup WritePcs
           /\ pc = "returned"
                 => res.outcome \in {"ok", "up_to_date", "UP_TO_DATE",
                                     "SQLiteLockError"}

\* C7 witness: a push reported up to date in the untouched clone.
C7_Witness ==
    /\ Returned("push", "UP_TO_DATE")
    /\ ~used.edited
    /\ ~used.modified

\* C8: .ki/hashes is append-only across operations: what pull or push leave
\* starts with what they found; and a successful pull of a changed collection
\* leaves the log it found plus one line, the MD5 of the collection.
C8_HashesAppendOnly ==
    /\ (pc = "returned" /\ res.op \in {"pull", "push"})
          => IsPrefix(pre.repo.wtHashes, repo.wtHashes)
    /\ Returned("pull", "merged")
          => repo.wtHashes = pre.repo.wtHashes
                                \o <<[md5 |-> md5(col), tag |-> ColName]>>

\* C8 failing state: a pull has returned and the log it leaves does not
\* start with the log it found (a line appended by an earlier pull, which
\* could not commit it, is gone).
C8_LineDropped ==
    /\ pc = "returned"
    /\ res.op = "pull"
    /\ Len(pre.repo.wtHashes) = 2
    /\ Len(repo.wtHashes) = 2
    /\ repo.wtHashes[2] # pre.repo.wtHashes[2]

\* C9: the LCA tag exists after every successful clone and push, on HEAD
\* when the clone or a non-trivial push put it there; a failed clone leaves
\* no repository, hence no tag; a failed push leaves the tag where it was.
C9_LcaTag ==
    /\ Returned("clone", "ok") => repo.lca # NoTag /\ repo.lca = repo.head
    /\ Returned("push", "NONTRIVIAL") => repo.lca # NoTag /\ repo.lca = repo.head
    /\ Returned("push", "UP_TO_DATE") => repo.lca # NoTag
    /\ Failed("clone") => target # "Repo" /\ repo.lca = NoTag
    /\ Failed("push") => \/ repo.lca = NoTag
                         \/ /\ repo.lca = pre.repo.lca
                            /\ repo.lcaTree = pre.repo.lcaTree
                            /\ repo.lcaHashes = pre.repo.lcaHashes

\* C9 witness: a push failed while writing the collection, HEAD being ahead
\* of the tag.
C9_Witness ==
    /\ Returned("push", "MissingNotetypeError")
    /\ repo.lca # NoTag
    /\ repo.lca # repo.head

\* C10: a successful non-trivial push leaves in .ki/backups a file named by
\* a timestamp and the MD5 of the collection as it was before the overwrite,
\* with those bytes; backup never replaces a file; nothing else adds, deletes
\* or changes a backup.
C10_Backups ==
    [][/\ backups \subseteq backups'
       /\ \A f, g \in backups' :
             (f.ts = g.ts /\ f.md5 = g.md5) => f = g
       /\ backups' # backups => pc = "push_backup"
       /\ (pc' = "returned" /\ res'.op = "push" /\ res'.outcome = "NONTRIVIAL")
             => \E f \in backups' :
                   /\ f.md5 = md5(pre'.col)
                   /\ f.bytes = pre'.col]_vars

\* C10 witness: two pushes have each left their backup.
C10_Witness ==
    /\ Returned("push", "NONTRIVIAL")
    /\ Cardinality(backups) = 2
    /\ \E f \in backups : f.bytes = pre.col

\* A clone that failed after get_target had determined the target directory.
CloneFailedInTry ==
    Failed("clone") /\ res.outcome # "TargetExistsError"

C12_TargetExists ==
    (pc = "returned" /\ res.op = "clone")
        => /\ (res.outcome = "TargetExistsError")
                  = (pre.target \notin {"NoPath", "EmptyDir"})
           /\ res.outcome = "TargetExistsError"
                 => /\ target = pre.target
                    /\ col = pre.col
                    /\ repo = pre.repo
                    /\ backups = pre.backups
                    /\ handles.col = "none"

\* C12 witness: a clone refused on a directory that holds files.
C12_Witness ==
    /\ Returned("clone", "TargetExistsError")
    /\ target = "Dir"

C14_ClosedAtReturn ==
    pc = "returned" => handles.col # "open" /\ handles.tempcol # "open"

\* C14, the failing case: a push rejected for a stale checksum returns with
\* the collection it opened still open.
C14_LeftOpen ==
    /\ Returned("push", "UpdatesRejectedError")
    /\ handles.col = "open"

\* C15: the working repository (working tree, index, HEAD, tag) is never
\* changed while the running operation holds the collection open: every
\* operation closes the collection first and mutates the repository after.
C15_CloseBeforeMutate ==
    [][repo' # repo => handles.col # "open"]_vars

\* C15, the failing case: a pull has merged into the working repository and
\* still holds the collection open.
C15_MergedWhileOpen ==
    /\ pc = "pull_checkout"
    /\ handles.col = "open"
    /\ repo # pre.repo
    /\ repo.head # pre.repo.head

\* The paths of the note files of tree t that carry guid g.
PathsOfGuid(t, g) == {p \in FilesOf(t) : t.files[p].guid = g}

\* The notes of a collection that carry guid g.
NotesOfGuid(bytes, g) == {n \in bytes.notes : n.guid = g}

\* The snapshot a push diffs against the collection: the working repository
\* as it was when the push started, copied and reset to HEAD.
PushedTree == cp_repo(pre.repo.wt, pre.repo.headTree)

\* The push in progress found the file of the note with guid g moved: the
\* collection has one note with that guid, HEAD has one file with that guid,
\* and the file is not where the collection's note is written to, where no
\* file is left.
MovedAtStart(g) ==
    LET A == write_repository(pre.col)
        B == PushedTree
    IN /\ Cardinality(NotesOfGuid(pre.col, g)) = 1
       /\ Cardinality(PathsOfGuid(B, g)) = 1
       /\ PathsOfGuid(A, g) \cap FilesOf(B) = {}

\* The moved file has the content the collection's note is written with.
MovedUnedited(g) ==
    LET A == write_repository(pre.col)
        B == PushedTree
    IN \A p \in PathsOfGuid(A, g), q \in PathsOfGuid(B, g) :
          A.files[p] = B.files[q]

\* C16: after a push that found a note's file moved with its guid unchanged,
\* the collection holds exactly one note with that guid, and it is the note
\* that was there before (same nid), not a new one.
C16_MoveKeepsNote ==
    \A g \in GUIDs :
        (Returned("push", "NONTRIVIAL") /\ MovedAtStart(g))
            => NotesOfGuid(col, g) = {n \in col.notes :
                   \E o \in NotesOfGuid(pre.col, g) : o.nid = n.nid}
               /\ Cardinality(NotesOfGuid(col, g)) = 1

\* C16, the failing case: a push that found the file of a note moved and
\* its fields edited returned with the note replaced by a new one.
C16_Reinserted ==
    \E g \in GUIDs :
        /\ Returned("push", "NONTRIVIAL")
        /\ MovedAtStart(g)
        /\ ~MovedUnedited(g)
        /\ \A n \in NotesOfGuid(col, g), o \in NotesOfGuid(pre.col, g) :
              n.nid # o.nid
        /\ NotesOfGuid(col, g) # {}

\* The push in progress found HEAD differing from the tree of the collection
\* in the field bodies of note files only: the same paths, at each path the
\* same guid and notetype, the same notetypes, and some other field content.
BodyEditAtStart ==
    LET A == write_repository(pre.col)
        B == PushedTree
    IN /\ FilesOf(A) = FilesOf(B)
       /\ A.models = B.models
       /\ \A p \in FilesOf(A) : /\ A.files[p].guid = B.files[p].guid
                                /\ A.files[p].model = B.files[p].model
       /\ \E p \in FilesOf(A) : A.files[p].val # B.files[p].val

PullRanMerge ==
    /\ pc = "returned"
    /\ res.op = "pull"
    /\ res.outcome \notin {"NotKiRepoError", "SQLiteLockError", "up_to_date",
                           "ValueError", "CollectionChecksumError"}

\* C18: a pull whose merge output contains "Aborting" leaves .ki/hashes
\* without a new line and makes no commit; any other pull that ran the merge
\* has appended the MD5 it computed when it started and has committed the
\* hashes file.
C18_AppendUnlessAborting ==
    PullRanMerge
        => IF loc.out = "Aborting"
           THEN /\ repo.wtHashes = loc.head
                /\ repo.head = pre.repo.head
                /\ repo.headHashes = pre.repo.headHashes
           ELSE /\ repo.wtHashes
                      = Append(loc.head, HashLine(md5(pre.col), ColName))
                /\ repo.headHashes = repo.wtHashes

\* C18, the failing case: a pull whose merge reported a conflict appended
\* the line and returned without having committed it.
C18_AppendedNotCommitted ==
    /\ Returned("pull", "UnmergedEntriesError")
    /\ loc.out = "CONFLICT"
    /\ repo.wtHashes = Append(loc.head, HashLine(md5(pre.col), ColName))
    /\ repo.headHashes # repo.wtHashes

\* C19: a pull that ran its merge fails with CollectionChecksumError exactly
\* when the MD5 of the collection after the merge differs from the MD5 that
\* _pull2 computed before it; such a pull leaves .ki/hashes without a new
\* line (the file is as HEAD had it before the merge, and its last line
\* holds neither checksum) and makes no commit of the hashes file (HEAD is
\* where the merge left it).
C19_ChecksumGuard ==
    (/\ pc = "returned"
     /\ res.op = "pull"
     /\ res.outcome \notin {"NotKiRepoError", "SQLiteLockError",
                             "up_to_date", "ValueError"})
        => /\ (res.outcome = "CollectionChecksumError")
                  = (md5(col) # loc.md5sum)
           /\ res.outcome = "CollectionChecksumError"
                 => /\ repo.wtHashes = loc.head
                    /\ loc.head = pre.repo.headHashes
                    /\ Last(repo.wtHashes).md5 # loc.md5sum
                    /\ Last(repo.wtHashes).md5 # md5(col)
                    /\ repo.head = pre.repo.head +
                          (IF loc.out \in {"Fast-forward", "Merge made"}
                           THEN 1 ELSE 0)

\* C19 witness: a pull failed with CollectionChecksumError after its merge
\* had fast-forwarded the working repository.
C19_Witness ==
    /\ Returned("pull", "CollectionChecksumError")
    /\ loc.out = "Fast-forward"
    /\ md5(col) # loc.md5sum

\* The push that returned had deltas and entered write_collection.
PushWrote == pc = "returned" /\ res.op = "push" /\ Len(loc.deltas) > 0

\* Some delta other than a DELETED one names a notetype that is neither in
\* the collection nor in the models.json of HEAD.
NotetypeMissing ==
    \E i \in DOMAIN loc.deltas :
        /\ loc.deltas[i].status # "DELETED"
        /\ loc.deltas[i].file.model
              \notin pre.col.models \cup pre.repo.headTree.models

\* C20: a push whose deltas name a notetype that the collection lacks after
\* the notetypes of models.json were added fails with MissingNotetypeError,
\* and only such a push does; the collection file, the repository with its
\* hashes file and tag, and the backups are as they were, only the
\* temporary copy was written to.
C20_MissingNotetype ==
    PushWrote
        => /\ (res.outcome = "MissingNotetypeError") = NotetypeMissing
           /\ res.outcome = "MissingNotetypeError"
                 => /\ col = pre.col
                    /\ repo = pre.repo
                    /\ backups = pre.backups
                    /\ loc.tempfile = pre.col
                    /\ ~loc.applied
                    /\ ~loc.backedup

\* C20 witness: a push failed on a note file naming a notetype that is in
\* no models.json, after it had removed a note from the temporary copy.
C20_Witness ==
    /\ Returned("push", "MissingNotetypeError")
    /\ NotetypeMissing
    /\ loc.tempcol.notes # pre.col.notes

\* The guids named by the DELETED deltas and by the other deltas of the push
\* in progress.
DeletedGuids == {d.file.guid : d \in SeqRange(Deletes(loc.deltas))}
UpsertedGuids == {d.file.guid : d \in SeqRange(Upserts(loc.deltas))}
GuidsOf(bytes) == {n.guid : n \in bytes.notes}
\* No two notes of a collection share a guid.
UniqueGuids(bytes) ==
    \A n \in bytes.notes : \A o \in bytes.notes : n.guid = o.guid => n = o

InitAside ==
    /\ col = InitCol
    /\ ankiOpen = FALSE
    /\ target = "NoPath"
    /\ repo = NoRepo
    /\ backups = {}
    /\ now = 1
    /\ pre = NoPre
    /\ handles = NoHandles
    /\ used = [ops |-> 0, edited |-> FALSE, modified |-> FALSE,
               synced |-> FALSE]

Aside == <<col, ankiOpen, target, repo, backups, now, pre, handles, used>>

\* ------------------------------------------------ deck directories (clone)
NumDeckNotes == 2
MaxNoteDecks == 2

MEDIA == "_media"

\* Deck names are sequences of components ("A::B" is <<"A", "B">>).
DeckNames == {<<"A">>, <<"A", "B">>, <<"_media">>, <<"A", "_media">>,
              <<"my_media">>}

\* Line 961, `MEDIA in d.fullname`: a substring test on the joined name.
MediaInFullname(fullname) ==
    \E i \in DOMAIN fullname : fullname[i] \in {"_media", "my_media"}

\* Line 984: `"_media" in parts`, a test on the components.
MediaInParts(fullname) == \E i \in DOMAIN fullname : fullname[i] = MEDIA

\* Anki keeps the parent of every deck.
DeckTrees ==
    {D \in SUBSET DeckNames :
        \A d \in D : Len(d) > 1 => SubSeq(d, 1, Len(d) - 1) \in D}

DeckNoteIds == 1..NumDeckNotes

\* The decks that the cards of each note lie in.
CardDecks(D) ==
    [DeckNoteIds -> {c \in SUBSET D : Cardinality(c) <= MaxNoteDecks}]

\* Lines 973-992: the deck directory that the file of a note is written to,
\* or the exception raised.  No link is made: mklink (lines 1011-1015) has
\* no caller.
write_note(deckmap, decknames) ==
    IF Cardinality(decknames) = 0
    THEN [err |-> "ValueError", deck |-> <<>>]
    ELSE IF Cardinality(decknames) > 1
    THEN [err |-> "ValueError", deck |-> <<>>]
    ELSE LET fullname == CHOOSE d \in decknames : TRUE
         IN IF MediaInParts(fullname)
            THEN [err |-> "ValueError", deck |-> <<>>]
            ELSE IF fullname \notin deckmap
                 THEN [err |-> "KeyError", deck |-> <<>>]
                 ELSE [err |-> "none", deck |-> fullname]

\* Lines 957-970: the decks are split into those whose name holds the media
\* directory name and the others, one warning is emitted when the first
\* kind exists, and the notes are written in the order of their ids until
\* one of them raises.
write_decks(decks, cards) ==
    LET collisions == {d \in decks : MediaInFullname(d)}
        deckmap == decks \ collisions
        written(n) == write_note(deckmap, cards[n])
        bad == {n \in DeckNoteIds : written(n).err # "none"}
        stop == IF bad = {} THEN NumDeckNotes + 1
                ELSE CHOOSE n \in bad : \A m \in bad : n <= m
    IN [err |-> IF bad = {} THEN "none" ELSE written(stop).err,
        warnings |-> IF collisions # {}
                     THEN <<"MediaDirectoryDeckNameCollisionWarning">>
                     ELSE <<>>,
        dirs |-> deckmap,
        files |-> {[nid |-> n, deck |-> written(n).deck] :
                      n \in {m \in DeckNoteIds : m < stop}},
        links |-> {}]

InitDecks ==
    /\ InitAside
    /\ pc = "write_decks"
    /\ res = NoRes
    /\ \E D \in DeckTrees :
          loc \in {[decks |-> D, cards |-> c] : c \in CardDecks(D)}

\* Lines 1349-1358: the clone writes the deck directories and the notes; an
\* exception of write_decks is raised again by the clone.
CloneDecks ==
    /\ pc = "write_decks"
    /\ pc' = "returned"
    /\ res' = [op |-> "clone"] @@ write_decks(loc.decks, loc.cards)
    /\ UNCHANGED loc
    /\ UNCHANGED Aside

NextDecks == CloneDecks

SpecDecks == InitDecks /\ [][NextDecks]_vars

\* The notes whose cards lie in more than one deck.
MultiDeckNotes == {n \in DeckNoteIds : Cardinality(loc.cards[n]) > 1}
ClonedDecks == pc = "returned" /\ res.op = "clone" /\ "files" \in DOMAIN res
PlainDecks == \A d \in loc.decks : ~MediaInFullname(d)
EveryNoteHasCards == \A n \in DeckNoteIds : loc.cards[n] # {}

\* C22: a clone of a collection with a note whose cards lie in several decks
\* succeeds, the note is one regular file in one of its decks and a link in
\* each of its other decks.
C22_MultiDeckNoteLinked ==
    (ClonedDecks /\ PlainDecks /\ EveryNoteHasCards /\ MultiDeckNotes # {})
        => /\ res.err = "none"
           /\ \A n \in MultiDeckNotes :
                 \E d \in loc.cards[n] :
                    /\ {f \in res.files : f.nid = n}
                          = {[nid |-> n, deck |-> d]}
                    /\ {l.deck : l \in {k \in res.links : k.nid = n}}
                          = loc.cards[n] \ {d}

\* C22, what the clone does: it raises ValueError for the first such note
\* and neither its file nor a link is written.
C22_MultiDeckNoteRaises ==
    /\ ClonedDecks /\ PlainDecks /\ EveryNoteHasCards /\ MultiDeckNotes # {}
    /\ res.err = "ValueError"
    /\ res.links = {}
    /\ \A n \in MultiDeckNotes : \A f \in res.files : f.nid # n

\* The decks with the media directory name as a component.
MediaDecks == {d \in loc.decks : MediaInParts(d)}
SingleDeckNotes == \A n \in DeckNoteIds : Cardinality(loc.cards[n]) = 1

\* C23: a clone of a collection with a deck that has `_media` as a component
\* of its name emits the collision warning, makes no directory for that deck
\* and succeeds, also when the deck holds notes.
C23_MediaDeckSkipped ==
    (ClonedDecks /\ SingleDeckNotes /\ MediaDecks # {})
        => /\ res.warnings = <<"MediaDirectoryDeckNameCollisionWarning">>
           /\ res.dirs \cap MediaDecks = {}
           /\ res.err = "none"

\* C23, what the clone does when a note lies in such a deck: the warning is
\* emitted and ValueError is raised.
C23_MediaDeckNoteRaises ==
    /\ ClonedDecks /\ SingleDeckNotes
    /\ \E n \in DeckNoteIds : loc.cards[n] \cap MediaDecks # {}
    /\ res.warnings = <<"MediaDirectoryDeckNameCollisionWarning">>
    /\ res.err = "ValueError"

\* ------------------------------------------------- notetypes (add_model)
MaxMid == 2

\* Field names of a notetype, in order.
FieldLists == {<<"Front", "Back">>, <<"Back", "Front">>, <<"Text">>}

\* A notetype name is a base name and the number of `+` that Anki appended
\* to make it unique.
NotetypeNames == {[base |-> b, plus |-> 0] : b \in Models}

\* Notetype dictionaries: id, name, modification time and fields.
NotetypeDicts ==
    [id : 1..MaxMid, name : NotetypeNames, mod : {1}, flds : FieldLists]

\* The notetypes of a collection: distinct ids, distinct names.
NotetypeSets ==
    {S \in SUBSET NotetypeDicts :
        \A a, b \in S : (a.id = b.id \/ a.name = b.name) => a = b}

\* The canonical JSON of a notetype: its content without id and
\* modification time.
notetype_json(nt) == <<"json", nt.name, nt.flds>>

\* col.models.id_for_name: 0 stands for None.
id_for_name(nts, name) ==
    IF \E nt \in nts : nt.name = name
    THEN (CHOOSE nt \in nts : nt.name = name).id
    ELSE 0

RECURSIVE unique_name(_, _)
unique_name(nts, name) ==
    IF \E nt \in nts : nt.name = name
    THEN unique_name(nts, [name EXCEPT !.plus = @ + 1])
    ELSE name

\* col.models.add_dict with id 0: a new id, the name made unique.
add_dict(nts, nt, timestamp) ==
    LET ids == {n.id : n \in nts} \cup {0}
        newid == (CHOOSE i \in ids : \A j \in ids : j <= i) + 1
    IN nts \cup {[id |-> newid, name |-> unique_name(nts, nt.name),
                  mod |-> timestamp, flds |-> nt.flds]}

\* Lines 1198-1233.  After the warning of line 1226 the function goes on to
\* line 1228 and adds the notetype.
add_model(nts, model) ==
    LET mid == id_for_name(nts, model.name)
        existing == CHOOSE nt \in nts : nt.id = mid
    IN IF mid # 0 /\ notetype_json(model) = notetype_json(existing)
       THEN [models |-> nts, warnings |-> <<>>]
       ELSE [models |-> add_dict(nts, model, 2),
             warnings |-> IF mid # 0
                          THEN <<"NotetypeCollisionWarning">>
                          ELSE <<>>]

InitModels ==
    /\ InitAside
    /\ pc = "add_model"
    /\ res = NoRes
    /\ loc \in [models : NotetypeSets, model : NotetypeDicts]

\* Line 1602: one notetype of the tree's models.json files is added.
AddModel ==
    /\ pc = "add_model"
    /\ pc' = "returned"
    /\ res' = [op |-> "add_model"] @@ add_model(loc.models, loc.model)
    /\ UNCHANGED loc
    /\ UNCHANGED Aside

NextModels == AddModel

SpecModels == InitModels /\ [][NextModels]_vars

AddedModel == pc = "returned" /\ res.op = "add_model"
SameName == {nt \in loc.models : nt.name = loc.model.name}
Collides ==
    \E nt \in SameName : notetype_json(nt) # notetype_json(loc.model)

\* C24: adding a notetype whose name is taken by a notetype of other
\* canonical JSON emits NotetypeCollisionWarning and leaves the notetypes of
\* the collection as they were.
C24_CollisionAddsNothing ==
    (AddedModel /\ Collides)
        => /\ res.warnings = <<"NotetypeCollisionWarning">>
           /\ res.models = loc.models

\* C24, what add_model does: the warning is emitted and the notetype is
\* added as one more notetype.
C24_CollisionAdds ==
    /\ AddedModel /\ Collides
    /\ res.warnings = <<"NotetypeCollisionWarning">>
    /\ loc.models \subseteq res.models
    /\ Cardinality(res.models) = Cardinality(loc.models) + 1

\* --------------------------------------------- one note at a time (push)
MaxHealth == 3

\* The field names of a note file, in the order of the file.
KeyLists == FieldLists \cup {<<"Front">>, <<"Front", "Back", "Extra">>}

\* A notetype with its sort field (an index into its fields).
SortedNotetypes ==
    {nt \in [flds : FieldLists, sortf : 1..2] : nt.sortf <= Len(nt.flds)}

\* The note files pushed: the first guid is in the collection, the second is
\* not. Two files of one push may carry the same guid.
PushedNotes == [guid : GUIDs, keys : KeyLists]
PushQueues ==
    {<<a>> : a \in PushedNotes} \cup (PushedNotes \X PushedNotes)

Min(a, b) == IF a <= b THEN a ELSE b

\* Variant: the number of fields is not compared.
validate_decknote_fields_names_only(names, keys) ==
    LET zipped == [i \in 1..Min(Len(names), Len(keys)) |->
                      IF names[i] # keys[i]
                      THEN "InconsistentFieldNamesWarning"
                      ELSE "same"]
    IN SelectSeq(zipped, LAMBDA w : w # "same")

\* Lines 509-524: one warning for a wrong number of fields, and one for
\* every position where the zipped names differ.
validate_decknote_fields(names, keys) ==
    LET zipped == [i \in 1..Min(Len(names), Len(keys)) |->
                      IF names[i] # keys[i]
                      THEN "InconsistentFieldNamesWarning"
                      ELSE "same"]
    IN (IF Len(keys) # Len(names)
        THEN <<"WrongFieldCountWarning">> ELSE <<>>)
          \o SelectSeq(zipped, LAMBDA w : w # "same")

\* Lines 360-370; health is what note.fields_check() returned.
check_fields_health(health) ==
    IF health = 1 THEN <<"EmptyNoteWarning">>
    ELSE IF health = 2 THEN <<"DuplicateNoteWarning">>
    ELSE IF health # 0 THEN <<"UnhealthyNoteWarning">>
    ELSE <<>>

\* Variant: an unhealthy note is warned about and kept.
update_note_keep(nids, nid, notetype, decknote, health) ==
    LET warnings == validate_decknote_fields(notetype.flds, decknote.keys)
    IN IF Len(warnings) > 0
       THEN [warnings |-> warnings, nids |-> nids, checked |-> FALSE]
       ELSE [warnings |-> check_fields_health(health), nids |-> nids,
             checked |-> TRUE]

\* Lines 489-506 of update_note: with validation warnings it returns before
\* the fields are written and before the health check; otherwise the fields
\* are written, the health is checked and an unhealthy note is removed.
update_note(nids, nid, notetype, decknote, health) ==
    LET warnings == validate_decknote_fields(notetype.flds, decknote.keys)
        fwarns == check_fields_health(health)
    IN IF Len(warnings) > 0
       THEN [warnings |-> warnings, nids |-> nids, checked |-> FALSE]
       ELSE [warnings |-> fwarns,
             nids |-> IF Len(fwarns) > 0 THEN nids \ {nid} ELSE nids,
             checked |-> TRUE]

\* Lines 663-717: a known guid is updated, and get_note raises NotFoundError
\* (lines 690-695) when its note is no longer there (an earlier file of the
\* same guid had it removed as unhealthy); a new one is inserted first, with
\* the sort field looked up in the fields of the file by the name of the
\* notetype's sort field (line 707), which raises KeyError when the file has
\* no field of that name.
push_note(nids, guids, new_nid, notetype, decknote, health) ==
    IF decknote.guid \in DOMAIN guids /\ guids[decknote.guid] \notin nids
    THEN [err |-> "NotFoundError", new |-> FALSE, nid |-> guids[decknote.guid],
          warnings |-> <<>>, nids |-> nids, checked |-> FALSE]
    ELSE IF decknote.guid \in DOMAIN guids
    THEN [err |-> "none", new |-> FALSE, nid |-> guids[decknote.guid]]
           @@ update_note(nids, guids[decknote.guid], notetype, decknote,
                          health)
    ELSE IF notetype.flds[notetype.sortf] \notin SeqRange(decknote.keys)
    THEN [err |-> "KeyError", new |-> TRUE, nid |-> new_nid,
          warnings |-> <<>>, nids |-> nids, checked |-> FALSE]
    ELSE [err |-> "none", new |-> TRUE, nid |-> new_nid]
           @@ update_note(nids \cup {new_nid}, new_nid, notetype, decknote,
                          health)

InitNote ==
    /\ InitAside
    /\ pc = "push_note"
    /\ res = NoRes
    /\ \E q \in PushQueues, nt \in SortedNotetypes :
          loc = [nids |-> {1}, guids |-> [g \in {"g1"} |-> 1],
                 notetype |-> nt, queue |-> q, log |-> <<>>]

\* Lines 1615-1629: push_note for the next note file; its warnings are
\* collected, its exception ends the push.
PushNote ==
    /\ pc = "push_note"
    /\ loc.queue # <<>>
    /\ \E health \in 0..MaxHealth :
          LET decknote == Head(loc.queue)
              r == push_note(loc.nids, loc.guids, 2 + Len(loc.log),
                             loc.notetype, decknote, health)
              entry == [decknote |-> decknote, health |-> health,
                        new |-> r.new, nid |-> r.nid, err |-> r.err,
                        checked |-> r.checked, warnings |-> r.warnings,
                        kept |-> r.nid \in r.nids]
          IN /\ loc' = [loc EXCEPT !.nids = r.nids, !.queue = Tail(@),
                                   !.log = Append(@, entry)]
             /\ IF r.err # "none"
                THEN pc' = "returned"
                     /\ res' = [op |-> "push_note", outcome |-> r.err]
                ELSE UNCHANGED <<pc, res>>
    /\ UNCHANGED Aside

\* Every note file was pushed.
PushNotesDone ==
    /\ pc = "push_note"
    /\ loc.queue = <<>>
    /\ pc' = "returned"
    /\ res' = [op |-> "push_note", outcome |-> "ok"]
    /\ UNCHANGED loc
    /\ UNCHANGED Aside

NextNote == PushNote \/ PushNotesDone

SpecNote == InitNote /\ [][NextNote]_vars

PushingNotes ==
    pc = "push_note" \/ (pc = "returned" /\ res.op = "push_note")
Pushed == IF PushingNotes THEN SeqRange(loc.log) ELSE {}
Mismatch(e) == e.decknote.keys # loc.notetype.flds
FieldWarnings ==
    {"WrongFieldCountWarning", "InconsistentFieldNamesWarning"}

\* C25: a note file whose fields do not match its notetype, new or known,
\* does not end the push: it emits WrongFieldCountWarning and/or
\* InconsistentFieldNamesWarning, the note files after it are pushed and the
\* push completes.
C25_MismatchNonFatal ==
    \A e \in Pushed :
        Mismatch(e)
            => /\ e.err = "none"
               /\ e.warnings # <<>>
               /\ SeqRange(e.warnings) \subseteq FieldWarnings
               /\ (pc = "returned" => res.outcome = "ok" /\ loc.queue = <<>>)

\* C25, what push_note does for a new note whose file lacks the field that
\* the notetype sorts by: KeyError, no warning, the rest is not pushed.
C25_NewNoteKeyError ==
    /\ pc = "returned" /\ res.op = "push_note" /\ res.outcome = "KeyError"
    /\ loc.queue # <<>>
    /\ \E e \in Pushed : Mismatch(e) /\ e.new /\ e.warnings = <<>>

\* C30: whenever the health check of a note just written returns a value
\* other than 0, the note is removed from the collection being built and
\* exactly one warning is emitted, EmptyNoteWarning for 1,
\* DuplicateNoteWarning for 2 and UnhealthyNoteWarning for every other value;
\* when it returns 0 the note is kept and no health warning is emitted.
C30_UnhealthyRemoved ==
    \A e \in Pushed :
        e.checked
            => /\ e.health = 0 => e.kept /\ e.warnings = <<>>
               /\ e.health = 1
                    => ~e.kept /\ e.warnings = <<"EmptyNoteWarning">>
               /\ e.health = 2
                    => ~e.kept /\ e.warnings = <<"DuplicateNoteWarning">>
               /\ e.health \notin {0, 1, 2}
                    => ~e.kept /\ e.warnings = <<"UnhealthyNoteWarning">>
               /\ (~e.kept) => e.nid \notin loc.nids

\* C30 witness: a push where one note was checked and removed with a value
\* above 2 and another, new one was checked and kept.
C30_Witness ==
    /\ pc = "returned" /\ res.op = "push_note" /\ res.outcome = "ok"
    /\ \E e \in Pushed : e.checked /\ e.health > 2 /\ ~e.kept
    /\ \E e \in Pushed : e.checked /\ e.health = 0 /\ e.kept /\ e.new

\* C28: at every step of a push, either the collection file is what it was
\* when the push started, or the last line of the hashes file holds the
\* checksum of the collection file as it is now.
C28_OverwriteRecorded ==
    (pc \in PushPcs \/ (pc = "returned" /\ res.op = "push"))
        => \/ col = pre.col
           \/ up_to_date(repo.wtHashes, md5(col))

\* C28, what a push passes through: the collection file is overwritten
\* (and saved once more by the close) while the last line of the hashes file
\* still holds the checksum of the old collection.
C28_OverwrittenNotRecorded ==
    /\ pc \in {"push_media", "push_append"}
    /\ col # pre.col
    /\ ~up_to_date(repo.wtHashes, md5(col))
    /\ up_to_date(repo.wtHashes, md5(pre.col))

\* C26: a pull or a push from a directory that is in no ki repository fails
\* with NotKiRepoError before the collection is opened, and changes neither
\* the collection nor anything in the directory; no other pull or push
\* fails that way.
C26_NotKiRepo ==
    (pc = "returned" /\ res.op \in {"pull", "push"})
        => /\ pre.target # "Repo"
              => /\ res.outcome = "NotKiRepoError"
                 /\ handles = NoHandles
                 /\ col = pre.col /\ repo = pre.repo
                 /\ backups = pre.backups /\ target = pre.target
           /\ res.outcome = "NotKiRepoError" => pre.target # "Repo"

\* C26 witness: a push failed that way while Anki held the collection and
\* a directory without a repository was there.
C26_Witness ==
    /\ pc = "returned" /\ res.op = "push" /\ res.outcome = "NotKiRepoError"
    /\ ankiOpen /\ target \in {"Dir", "Partial"}

\* ------------------------------------------------ guid of a blank header
MaxGuidFields == 2

\* Texts are sequences of UTF-8 bytes: "", "a", "_" and the unit separator.
FieldTexts == {<<>>, <<97>>, <<95>>, <<31>>}
GuidFieldLists == UNION {[1..n -> FieldTexts] : n \in 1..MaxGuidFields}

\* The guid line of a note file: blank, or a guid.
HeaderGuids == {<<>>, <<"g", "1">>, <<"a", "b", "c">>}

\* sep.join(fields)
RECURSIVE Join(_, _)
Join(sep, fields) ==
    IF fields = <<>> THEN <<>>
    ELSE IF Len(fields) = 1 THEN fields[1]
    ELSE fields[1] \o sep \o Join(sep, Tail(fields))

\* hashlib.sha256(bytes).digest()[:8], tabulated for the texts that can be
\* joined from FieldTexts.
sha256_8(bytes) ==
    CASE bytes = <<>> -> <<227, 176, 196, 66, 152, 252, 28, 20>>
    [] bytes = <<31>> -> <<255, 230, 121, 187, 131, 28, 149, 182>>
    [] bytes = <<95>> -> <<210, 226, 173, 247, 23, 123, 122, 138>>
    [] bytes = <<97>> -> <<202, 151, 129, 18, 202, 27, 189, 202>>
    [] bytes = <<31, 31>> -> <<184, 201, 228, 64, 234, 211, 221, 172>>
    [] bytes = <<31, 95>> -> <<51, 27, 16, 210, 112, 92, 72, 28>>
    [] bytes = <<31, 97>> -> <<178, 12, 189, 46, 251, 228, 150, 112>>
    [] bytes = <<95, 31>> -> <<0, 79, 218, 15, 73, 57, 184, 87>>
    [] bytes = <<95, 95>> -> <<153, 17, 244, 210, 177, 132, 87, 196>>
    [] bytes = <<97, 31>> -> <<105, 252, 148, 192, 51, 209, 244, 140>>
    [] bytes = <<31, 31, 31>> -> <<198, 11, 31, 108, 228, 172, 150, 205>>
    [] bytes = <<31, 31, 95>> -> <<92, 185, 109, 194, 231, 38, 145, 87>>
    [] bytes = <<31, 31, 97>> -> <<84, 2, 129, 194, 36, 77, 243, 74>>
    [] bytes = <<31, 95, 31>> -> <<216, 128, 234, 158, 227, 79, 202, 86>>
    [] bytes = <<31, 95, 95>> -> <<144, 225, 163, 116, 189, 161, 132, 6>>
    [] bytes = <<31, 97, 31>> -> <<126, 123, 17, 26, 121, 14, 71, 55>>
    [] bytes = <<95, 31, 31>> -> <<199, 4, 220, 145, 202, 110, 46, 182>>
    [] bytes = <<95, 31, 95>> -> <<172, 101, 173, 52, 33, 79, 28, 138>>
    [] bytes = <<95, 31, 97>> -> <<121, 254, 176, 169, 45, 122, 225, 113>>
    [] bytes = <<95, 95, 31>> -> <<110, 171, 201, 212, 235, 79, 41, 88>>
    [] bytes = <<95, 95, 95>> -> <<189, 162, 81, 85, 11, 240, 71, 143>>
    [] bytes = <<95, 95, 97>> -> <<139, 70, 18, 76, 19, 210, 109, 107>>
    [] bytes = <<97, 31, 31>> -> <<19, 69, 136, 226, 86, 211, 97, 201>>
    [] bytes = <<97, 31, 95>> -> <<182, 210, 167, 53, 188, 148, 203, 3>>
    [] bytes = <<97, 31, 97>> -> <<0, 59, 197, 29, 71, 103, 57, 232>>
    [] bytes = <<97, 95, 95>> -> <<0, 165, 197, 207, 127, 65, 171, 197>>
    [] bytes = <<31, 31, 31, 31>> -> <<16, 231, 251, 80, 81, 81, 121, 236>>
    [] bytes = <<31, 31, 31, 95>> -> <<191, 121, 110, 171, 148, 151, 189, 175>>
    [] bytes = <<31, 31, 31, 97>> -> <<175, 156, 187, 155, 104, 141, 20, 181>>
    [] bytes = <<31, 31, 95, 31>> -> <<156, 84, 83, 175, 99, 225, 184, 4>>
    [] bytes = <<31, 31, 97, 31>> -> <<3, 110, 195, 216, 103, 99, 202, 8>>
    [] bytes = <<31, 95, 31, 31>> -> <<75, 79, 155, 29, 42, 60, 41, 163>>
    [] bytes = <<31, 95, 31, 95>> -> <<156, 203, 52, 167, 66, 79, 37, 56>>
    [] bytes = <<31, 95, 31, 97>> -> <<163, 174, 157, 95, 62, 91, 61, 2>>
    [] bytes = <<31, 95, 95, 31>> -> <<73, 181, 239, 124, 2, 34, 33, 171>>
    [] bytes = <<31, 95, 95, 95>> -> <<185, 137, 152, 121, 128, 45, 69, 101>>
    [] bytes = <<31, 95, 95, 97>> -> <<242, 113, 68, 6, 17, 88, 2, 206>>
    [] bytes = <<31, 97, 31, 31>> -> <<19, 44, 166, 200, 145, 98, 10, 230>>
    [] bytes = <<31, 97, 31, 95>> -> <<228, 207, 34, 2, 239, 173, 1, 227>>
    [] bytes = <<31, 97, 31, 97>> -> <<40, 170, 161, 169, 212, 188, 55, 242>>
    [] bytes = <<95, 31, 31, 31>> -> <<88, 253, 53, 25, 41, 193, 171, 65>>
    [] bytes = <<95, 31, 31, 95>> -> <<124, 50, 177, 157, 113, 82, 214, 231>>
    [] bytes = <<95, 31, 31, 97>> -> <<161, 130, 253, 8, 43, 111, 38, 131>>
    [] bytes = <<95, 31, 95, 31>> -> <<238, 162, 33, 208, 248, 211, 54, 190>>
    [] bytes = <<95, 31, 97, 31>> -> <<242, 128, 105, 227, 0, 22, 19, 117>>
    [] bytes = <<95, 95, 95, 31>> -> <<152, 106, 49, 87, 124, 247, 179, 142>>
    [] bytes = <<95, 95, 95, 95>> -> <<192, 166, 148, 208, 212, 52, 254, 221>>
    [] bytes = <<95, 95, 95, 97>> -> <<77, 113, 221, 88, 7, 199, 189, 43>>
    [] bytes = <<97, 31, 31, 31>> -> <<43, 175, 177, 150, 184, 172, 111, 126>>
    [] bytes = <<97, 31, 31, 95>> -> <<121, 243, 73, 61, 87, 67, 159, 52>>
    [] bytes = <<97, 31, 31, 97>> -> <<49, 243, 161, 126, 33, 177, 136, 54>>
    [] bytes = <<97, 31, 95, 31>> -> <<105, 149, 44, 123, 122, 194, 135, 17>>
    [] bytes = <<97, 31, 97, 31>> -> <<211, 11, 128, 250, 238, 209, 240, 209>>
    [] bytes = <<97, 95, 95, 31>> -> <<169, 213, 86, 111, 62, 101, 180, 34>>
    [] bytes = <<97, 95, 95, 95>> -> <<31, 6, 59, 208, 65, 105, 65, 228>>
    [] bytes = <<97, 95, 95, 97>> -> <<173, 197, 163, 115, 18, 76, 41, 217>>
    [] bytes = <<31, 31, 31, 31, 31>> -> <<222, 45, 26, 160, 80, 154, 128, 197>>
    [] bytes = <<31, 31, 31, 31, 95>> -> <<166, 15, 57, 227, 185, 45, 37, 186>>
    [] bytes = <<31, 31, 31, 31, 97>> -> <<118, 51, 139, 156, 11, 122, 203, 225>>
    [] bytes = <<31, 31, 95, 31, 31>> -> <<102, 230, 167, 59, 219, 16, 201, 58>>
    [] bytes = <<31, 31, 95, 31, 95>> -> <<198, 74, 155, 154, 52, 48, 218, 228>>
    [] bytes = <<31, 31, 95, 31, 97>> -> <<203, 108, 4, 215, 46, 139, 12, 90>>
    [] bytes = <<31, 31, 97, 31, 31>> -> <<253, 175, 28, 155, 140, 212, 47, 78>>
    [] bytes = <<31, 31, 97, 31, 95>> -> <<120, 243, 76, 221, 191, 45, 18, 239>>
    [] bytes = <<31, 31, 97, 31, 97>> -> <<174, 119, 167, 59, 111, 94, 241, 211>>
    [] bytes = <<31, 95, 95, 95, 95>> -> <<193, 32, 45, 14, 187, 177, 192, 0>>
    [] bytes = <<95, 31, 31, 31, 31>> -> <<44, 184, 181, 2, 32, 239, 163, 181>>
    [] bytes = <<95, 31, 31, 31, 95>> -> <<35, 176, 163, 92, 72, 41, 195, 158>>
    [] bytes = <<95, 31, 31, 31, 97>> -> <<97, 150, 115, 23, 11, 222, 74, 174>>
    [] bytes = <<95, 31, 95, 31, 31>> -> <<206, 252, 125, 30, 194, 63, 90, 18>>
    [] bytes = <<95, 31, 95, 31, 95>> -> <<229, 78, 15, 45, 59, 164, 115, 250>>
    [] bytes = <<95, 31, 95, 31, 97>> -> <<246, 134, 117, 190, 144, 253, 31, 246>>
    [] bytes = <<95, 31, 97, 31, 31>> -> <<240, 209, 211, 94, 124, 182, 200, 151>>
    [] bytes = <<95, 31, 97, 31, 95>> -> <<227, 55, 65, 70, 175, 101, 148, 208>>
    [] bytes = <<95, 31, 97, 31, 97>> -> <<245, 215, 20, 127, 235, 4, 91, 235>>
    [] bytes = <<95, 95, 31, 95, 95>> -> <<66, 16, 125, 86, 253, 178, 126, 238>>
    [] bytes = <<95, 95, 95, 95, 31>> -> <<78, 0, 60, 48, 131, 141, 241, 0>>
    [] bytes = <<95, 95, 95, 95, 95>> -> <<184, 56, 220, 176, 110, 4, 190, 226>>
    [] bytes = <<95, 95, 95, 95, 97>> -> <<222, 248, 54, 75, 125, 251, 129, 187>>
    [] bytes = <<95, 95, 97, 95, 95>> -> <<79, 145, 27, 241, 0, 145, 198, 37>>
    [] bytes = <<97, 31, 31, 31, 31>> -> <<217, 98, 180, 205, 167, 235, 186, 46>>
    [] bytes = <<97, 31, 31, 31, 95>> -> <<126, 39, 101, 187, 180, 50, 136, 53>>
    [] bytes = <<97, 31, 31, 31, 97>> -> <<198, 1, 193, 162, 144, 25, 156, 249>>
    [] bytes = <<97, 31, 95, 31, 31>> -> <<47, 24, 98, 178, 237, 239, 69, 110>>
    [] bytes = <<97, 31, 95, 31, 95>> -> <<4, 78, 15, 37, 125, 132, 229, 189>>
    [] bytes = <<97, 31, 95, 31, 97>> -> <<181, 213, 108, 7, 219, 228, 53, 184>>
    [] bytes = <<97, 31, 97, 31, 31>> -> <<101, 4, 121, 27, 219, 143, 69, 145>>
    [] bytes = <<97, 31, 97, 31, 95>> -> <<115, 38, 174, 209, 172, 41, 112, 184>>
    [] bytes = <<97, 31, 97, 31, 97>> -> <<111, 120, 209, 219, 165, 194, 50, 76>>
    [] bytes = <<97, 95, 95, 95, 95>> -> <<184, 49, 88, 131, 73, 123, 39, 233>>
    [] bytes = <<31, 95, 95, 31, 95, 95>> -> <<187, 29, 59, 196, 121, 237, 126, 229>>
    [] bytes = <<31, 95, 95, 95, 95, 31>> -> <<239, 208, 57, 228, 73, 185, 250, 223>>
    [] bytes = <<31, 95, 95, 95, 95, 95>> -> <<48, 101, 137, 148, 149, 199, 251, 24>>
    [] bytes = <<31, 95, 95, 95, 95, 97>> -> <<232, 78, 152, 85, 124, 24, 88, 146>>
    [] bytes = <<31, 95, 95, 97, 95, 95>> -> <<209, 190, 211, 177, 105, 51, 133, 5>>
    [] bytes = <<95, 95, 31, 95, 95, 31>> -> <<39, 246, 255, 12, 137, 84, 47, 21>>
    [] bytes = <<95, 95, 31, 95, 95, 95>> -> <<18, 105, 223, 119, 64, 61, 225, 231>>
    [] bytes = <<95, 95, 31, 95, 95, 97>> -> <<156, 228, 172, 26, 163, 177, 127, 105>>
    [] bytes = <<95, 95, 95, 31, 95, 95>> -> <<222, 18, 80, 216, 47, 16, 206, 9>>
    [] bytes = <<95, 95, 95, 95, 95, 31>> -> <<54, 11, 149, 120, 78, 63, 22, 82>>
    [] bytes = <<95, 95, 95, 95, 95, 95>> -> <<58, 180, 213, 249, 50, 31, 122, 62>>
    [] bytes = <<95, 95, 95, 95, 95, 97>> -> <<54, 205, 7, 208, 197, 171, 189, 226>>
    [] bytes = <<95, 95, 95, 97, 95, 95>> -> <<178, 167, 57, 33, 15, 184, 185, 118>>
    [] bytes = <<95, 95, 97, 95, 95, 31>> -> <<152, 51, 109, 63, 195, 216, 251, 205>>
    [] bytes = <<95, 95, 97, 95, 95, 95>> -> <<6, 104, 93, 5, 193, 254, 248, 117>>
    [] bytes = <<95, 95, 97, 95, 95, 97>> -> <<104, 241, 229, 22, 122, 86, 89, 100>>
    [] bytes = <<97, 95, 95, 31, 95, 95>> -> <<140, 148, 1, 231, 36, 171, 31, 202>>
    [] bytes = <<97, 95, 95, 95, 95, 31>> -> <<229, 122, 235, 177, 88, 245, 91, 71>>
    [] bytes = <<97, 95, 95, 95, 95, 95>> -> <<13, 11, 231, 194, 20, 38, 27, 245>>
    [] bytes = <<97, 95, 95, 95, 95, 97>> -> <<240, 41, 202, 42, 152, 228, 92, 107>>
    [] bytes = <<97, 95, 95, 97, 95, 95>> -> <<208, 111, 71, 47, 179, 42, 27, 146>>
    [] bytes = <<31, 95, 95, 31, 95, 95, 31>> -> <<245, 14, 140, 60, 141, 159, 11, 55>>
    [] bytes = <<31, 95, 95, 31, 95, 95, 95>> -> <<64, 252, 174, 156, 236, 142, 61, 213>>
    [] bytes = <<31, 95, 95, 31, 95, 95, 97>> -> <<157, 49, 91, 104, 99, 106, 177, 159>>
    [] bytes = <<31, 95, 95, 95, 95, 95, 31>> -> <<156, 179, 31, 249, 173, 251, 146, 143>>
    [] bytes = <<31, 95, 95, 95, 95, 95, 95>> -> <<99, 71, 170, 236, 49, 0, 229, 123>>
    [] bytes = <<31, 95, 95, 95, 95, 95, 97>> -> <<103, 186, 58, 249, 71, 209, 73, 157>>
    [] bytes = <<31, 95, 95, 97, 95, 95, 31>> -> <<187, 113, 33, 13, 182, 140, 40, 17>>
    [] bytes = <<31, 95, 95, 97, 95, 95, 95>> -> <<131, 20, 215, 48, 253, 23, 86, 216>>
    [] bytes = <<31, 95, 95, 97, 95, 95, 97>> -> <<100, 154, 215, 142, 84, 116, 69, 137>>
    [] bytes = <<95, 95, 95, 31, 95, 95, 31>> -> <<135, 7, 103, 253, 230, 229, 227, 164>>
    [] bytes = <<95, 95, 95, 31, 95, 95, 95>> -> <<240, 211, 6, 94, 101, 163, 192, 221>>
    [] bytes = <<95, 95, 95, 31, 95, 95, 97>> -> <<182, 228, 9, 214, 216, 193, 24, 226>>
    [] bytes = <<95, 95, 95, 95, 95, 95, 31>> -> <<125, 45, 58, 27, 20, 213, 73, 66>>
    [] bytes = <<95, 95, 95, 95, 95, 95, 95>> -> <<24, 193, 16, 71, 210, 204, 207, 75>>
    [] bytes = <<95, 95, 95, 95, 95, 95, 97>> -> <<108, 22, 254, 87, 39, 105, 102, 196>>
    [] bytes = <<95, 95, 95, 97, 95, 95, 31>> -> <<149, 192, 196, 68, 230, 189, 242, 127>>
    [] bytes = <<95, 95, 95, 97, 95, 95, 95>> -> <<163, 108, 79, 224, 10, 72, 125, 200>>
    [] bytes = <<95, 95, 95, 97, 95, 95, 97>> -> <<214, 90, 11, 151, 116, 91, 120, 246>>
    [] bytes = <<97, 95, 95, 31, 95, 95, 31>> -> <<168, 179, 65, 99, 38, 174, 146, 181>>
    [] bytes = <<97, 95, 95, 31, 95, 95, 95>> -> <<104, 208, 160, 200, 83, 255, 206, 110>>
    [] bytes = <<97, 95, 95, 31, 95, 95, 97>> -> <<85, 162, 67, 163, 154, 20, 193, 85>>
    [] bytes = <<97, 95, 95, 95, 95, 95, 31>> -> <<13, 210, 233, 249, 177, 37, 180, 64>>
    [] bytes = <<97, 95, 95, 95, 95, 95, 95>> -> <<48, 218, 244, 33, 207, 153, 5, 166>>
    [] bytes = <<97, 95, 95, 95, 95, 95, 97>> -> <<70, 235, 231, 118, 38, 220, 201, 193>>
    [] bytes = <<97, 95, 95, 97, 95, 95, 31>> -> <<106, 144, 195, 207, 76, 224, 86, 107>>
    [] bytes = <<97, 95, 95, 97, 95, 95, 95>> -> <<27, 74, 19, 206, 43, 193, 97, 253>>
    [] bytes = <<97, 95, 95, 97, 95, 95, 97>> -> <<209, 45, 165, 113, 188, 76, 92, 133>>

\* Line 164: ALHPANUMERICS + SYMBOLS, one string for each character (the
\* grave accent is spelled out).
BASE91_TABLE ==
    <<"a", "b", "c", "d", "e", "f", "g", "h", "i", "j", "k", "l", "m",
      "n", "o", "p", "q", "r", "s", "t", "u", "v", "w", "x", "y", "z",
      "A", "B", "C", "D", "E", "F", "G", "H", "I", "J", "K", "L", "M",
      "N", "O", "P", "Q", "R", "S", "T", "U", "V", "W", "X", "Y", "Z",
      "0", "1", "2", "3", "4", "5", "6", "7", "8", "9", "!", "#", "$",
      "%", "&", "(", ")", "*", "+", ",", "-", ".", "/", ":", ";", "<",
      "=", ">", "?", "@", "[", "]", "^", "_", "backtick", "{", "|", "}", "~">>

\* Line 379 makes an integer of the eight bytes, most significant first; the
\* integer is kept as its eight base-256 digits.  Lines 383-385 divide it by
\* the length of the table until it is zero: long division, digit by digit.
RECURSIVE LongDiv(_, _, _, _)
LongDiv(x, n, quot, rem) ==
    IF x = <<>> THEN [quot |-> quot, rem |-> rem]
    ELSE LET cur == rem * 256 + Head(x)
         IN LongDiv(Tail(x), n, Append(quot, cur \div n), cur % n)

IsZero(x) == \A i \in DOMAIN x : x[i] = 0

Reversed(s) == [i \in DOMAIN s |-> s[Len(s) + 1 - i]]

RECURSIVE Base91Chars(_)
Base91Chars(x) ==
    IF IsZero(x) THEN <<>>
    ELSE LET d == LongDiv(x, Len(BASE91_TABLE), <<>>, 0)
         IN <<BASE91_TABLE[d.rem + 1]>> \o Base91Chars(d.quot)

\* Variant: the fields are joined with the unit separator.
get_guid_unit_separator(fields) ==
    Reversed(Base91Chars(sha256_8(Join(<<31>>, fields))))

\* Lines 373-386: the fields joined with "__", hashed, the first eight bytes
\* written in base 91, most significant digit first.
get_guid(fields) ==
    Reversed(Base91Chars(sha256_8(Join(<<95, 95>>, fields))))

\* Lines 398-401 of parse_note: a blank guid line gets the guid of the
\* fields.
parse_guid(flatnote) ==
    IF flatnote.guid # <<>> THEN flatnote.guid ELSE get_guid(flatnote.fields)

InitGuid ==
    /\ InitAside
    /\ pc = "parse_note"
    /\ res = NoRes
    /\ loc \in [guid : HeaderGuids, fields : GuidFieldLists]

\* A note file is parsed.
ParseNote ==
    /\ pc = "parse_note"
    /\ pc' = "returned"
    /\ res' = [op |-> "parse_note", guid |-> parse_guid(loc)]
    /\ UNCHANGED loc
    /\ UNCHANGED Aside

NextGuid == ParseNote

SpecGuid == InitGuid /\ [][NextGuid]_vars

\* The eight bytes that a base-91 numeral stands for: each digit multiplies
\* the number so far by 91 and adds its index in the table.
RECURSIVE MulAdd(_, _, _)
MulAdd(x, n, carry) ==
    IF x = <<>> THEN <<>>
    ELSE LET t == x[Len(x)] * n + carry
         IN Append(MulAdd(SubSeq(x, 1, Len(x) - 1), n, t \div 256), t % 256)

Base91Index(c) == (CHOOSE i \in DOMAIN BASE91_TABLE : BASE91_TABLE[i] = c) - 1

RECURSIVE Base91Value(_)
Base91Value(guid) ==
    IF guid = <<>> THEN <<0, 0, 0, 0, 0, 0, 0, 0>>
    ELSE MulAdd(Base91Value(SubSeq(guid, 1, Len(guid) - 1)), 91,
                Base91Index(guid[Len(guid)]))

ParsedNote == pc = "returned" /\ res.op = "parse_note"

\* C27 as stated, with the fields joined by the unit separator.
C27_GuidOfUnitSeparatorJoin ==
    ParsedNote =>
        IF loc.guid # <<>> THEN res.guid = loc.guid
        ELSE /\ res.guid # <<>>
             /\ Base91Value(res.guid) = sha256_8(Join(<<31>>, loc.fields))

\* C27: a note file with a blank guid line gets at parse time a guid that is
\* not empty and is the base-91 numeral (digits of BASE91_TABLE, most
\* significant first, no leading zero digit) of the first eight bytes of the
\* SHA-256 of its field values joined with "__"; a guid line that is not
\* blank is used as it is.
C27_GuidOfFields ==
    ParsedNote =>
        IF loc.guid # <<>> THEN res.guid = loc.guid
        ELSE /\ res.guid # <<>>
             /\ res.guid[1] # BASE91_TABLE[1]
             /\ \A i \in DOMAIN res.guid :
                   \E j \in DOMAIN BASE91_TABLE : res.guid[i] = BASE91_TABLE[j]
             /\ Base91Value(res.guid) = sha256_8(Join(<<95, 95>>, loc.fields))

\* C27 witness: the fields "a" and "a" under a blank guid line got the guid
\* that hashlib and the arithmetic of get_guid give for "a__a".
C27_Witness ==
    /\ ParsedNote
    /\ loc.guid = <<>>
    /\ loc.fields = <<<<97>>, <<97>>>>
    /\ res.guid = <<"D", "x", "(", "q", "9", "S", "}", "d", "3", "C">>

\* ------------------------------------------------- one diff entry at a time
\* The paths of the entries: note files at the root, in a deck directory and
\* in a reserved directory, and other files.
DiffPaths ==
    {[slug |-> 1, n |-> 0], [slug |-> 2, n |-> 0],
     [slug |-> 1, n |-> 0, dir |-> <<"A">>],
     [slug |-> 1, n |-> 0, dir |-> <<"A", "_media">>],
     [name |-> "README.md"], [name |-> "models.json"],
     [name |-> "models.json", dir |-> <<"A">>],
     [name |-> ".gitignore"], [name |-> "_media"],
     [name |-> "a.png", dir |-> <<".ki">>]}

\* What is at a path of a snapshot: nothing, a note file, another file.
DiffFiles ==
    {NoFile, [text |-> "readme"]}
        \cup [guid : GUIDs, val : {1}, model : {"Basic"}]

DiffTypes == {"A", "D", "M", "R", "T"}

\* Lines 299-300: a missing side of an entry is the other side.
DiffEntries ==
    {d \in [change_type : DiffTypes, a_path : DiffPaths, b_path : DiffPaths] :
        d.change_type # "R" <=> d.a_path = d.b_path}

Snapshot1(path, file) ==
    [files |-> IF file = NoFile THEN <<>> ELSE (path :> file), models |-> {}]

InitDiff ==
    /\ InitAside
    /\ pc = "mungediff"
    /\ res = NoRes
    /\ loc \in [d : DiffEntries, a : DiffFiles, b : DiffFiles]

\* Line 340: mungediff for one entry of the diff.
MungeDiff ==
    /\ pc = "mungediff"
    /\ pc' = "returned"
    /\ res' = [op |-> "mungediff",
               out |-> mungediff(Snapshot1(loc.d.a_path, loc.a),
                                 Snapshot1(loc.d.b_path, loc.b), loc.d)]
    /\ UNCHANGED loc
    /\ UNCHANGED Aside

NextDiff == MungeDiff

SpecDiff == InitDiff /\ [][NextDiff]_vars

Munged == pc = "returned" /\ res.op = "mungediff"
ReservedDirs == {".git", ".ki", "_media"}
IgnoredNames ==
    {".git", ".ki", "_media", ".gitignore", ".gitmodules", "models.json"}
Components(path) ==
    IF "dir" \in DOMAIN path THEN SeqRange(path.dir) ELSE {}
Ignorable(path, file) ==
    \/ "name" \in DOMAIN path /\ path.name \in IgnoredNames
    \/ Components(path) \cap ReservedDirs # {}
    \/ (file # NoFile /\ "guid" \notin DOMAIN file)
DeltaOf(status, file, path) ==
    [status |-> status, file |-> file, relpath |-> path]
WarningOf(kind, path) == [warning |-> kind, relpath |-> path]

\* C29: a diff entry gives nothing when its A or B path is ignorable (an
\* ignored name, a reserved directory among its components, or an existing
\* file that is no note); a DELETED entry gives one DELETED delta when the A
\* side is a file of the A snapshot, else only DeletedFileNotFoundWarning;
\* any other entry whose B side is missing gives only
\* DiffTargetFileNotFoundWarning; a RENAMED entry gives DELETED for path A
\* and ADDED for path B when the two guids differ and one RENAMED delta at
\* path B when they are equal; every other entry gives one delta at path B
\* with the change type of the entry.
C29_DeltaExtraction ==
    Munged =>
        LET d == loc.d
            out == res.out
        IN IF Ignorable(d.a_path, loc.a) \/ Ignorable(d.b_path, loc.b)
           THEN out = <<>>
           ELSE /\ (d.change_type = "D" /\ loc.a # NoFile)
                     => out = <<DeltaOf("DELETED", loc.a, d.a_path)>>
                /\ (d.change_type = "D" /\ loc.a = NoFile)
                     => out = <<WarningOf("DeletedFileNotFoundWarning",
                                          d.a_path)>>
                /\ (d.change_type # "D" /\ loc.b = NoFile)
                     => out = <<WarningOf("DiffTargetFileNotFoundWarning",
                                          d.b_path)>>
                /\ (d.change_type = "R" /\ loc.b # NoFile /\ loc.a # NoFile
                      /\ loc.a.guid # loc.b.guid)
                     => out = <<DeltaOf("DELETED", loc.a, d.a_path),
                                DeltaOf("ADDED", loc.b, d.b_path)>>
                /\ (d.change_type = "R" /\ loc.b # NoFile /\ loc.a # NoFile
                      /\ loc.a.guid = loc.b.guid)
                     => out = <<DeltaOf("RENAMED", loc.b, d.b_path)>>
                /\ (d.change_type = "A" /\ loc.b # NoFile)
                     => out = <<DeltaOf("ADDED", loc.b, d.b_path)>>
                /\ (d.change_type = "M" /\ loc.b # NoFile)
                     => out = <<DeltaOf("MODIFIED", loc.b, d.b_path)>>
                /\ (d.change_type = "T" /\ loc.b # NoFile)
                     => out = <<DeltaOf("TYPECHANGED", loc.b, d.b_path)>>

\* C29 witness: a modified entry whose A side was another file and whose B
\* side is a note gave nothing.
C29_Witness ==
    /\ Munged
    /\ loc.d.change_type = "M"
    /\ loc.d.a_path = [slug |-> 1, n |-> 0, dir |-> <<"A">>]
    /\ loc.a = [text |-> "readme"]
    /\ "guid" \in DOMAIN loc.b
    /\ res.out = <<>>

\* ------------------------------------------------ push and the HEAD commit
\* A file of tree t that agrees with note n in guid, notetype and fields.
FileOfNote(t, n) ==
    \E p \in FilesOf(t) : /\ t.files[p].guid = n.guid
                          /\ t.files[p].val = n.val
                          /\ t.files[p].model = n.model

\* C32: push applies the repository as of its HEAD commit: after a successful
\* non-trivial push every note of the collection is a note it had before or
\* is the note of a file of the HEAD commit; what is only in the working
\* tree (uncommitted edits, untracked note files) is in no note.
C32_OnlyHeadReachesCollection ==
    Returned("push", "NONTRIVIAL")
        => \A n \in col.notes :
              n \in pre.col.notes \/ FileOfNote(pre.repo.headTree, n)

\* C32 witness: a push returned while a tracked file had an uncommitted edit,
\* and the note of that file has the committed fields, not the edited ones.
C32_UncommittedEditNotPushed ==
    /\ Returned("push", "NONTRIVIAL")
    /\ \E p \in FilesOf(pre.repo.headTree) \cap FilesOf(pre.repo.wt) :
          /\ pre.repo.wt.files[p].val # pre.repo.headTree.files[p].val
          /\ pre.repo.wt.files[p].guid = pre.repo.headTree.files[p].guid
          /\ \E n \in col.notes :
                /\ n.guid = pre.repo.headTree.files[p].guid
                /\ n.val = pre.repo.headTree.files[p].val
          /\ \A n \in col.notes : n.val # pre.repo.wt.files[p].val

\* ----------------------------------------------------- note ids of a push
\* At push_close_temp: the clock reading from which PushBuild started the
\* counter of new note ids (PushBuild has advanced the clock by MaxFiles).
PushTimestamp == now - MaxFiles + 1

\* The guids that the guid -> nid map of the push holds when the upserts
\* start: those of the collection, minus the deleted ones.
LiveGuids == GuidsOf(pre.col) \ DeletedGuids

\* The upserts of the push whose guid that map lacks, in delta order.
FreshUpserts ==
    SelectSeq(Upserts(loc.deltas), LAMBDA d : d.file.guid \notin LiveGuids)

\* C31: within one push, an upsert whose guid the collection has (and no
\* DELETED delta of the push names) is applied to the existing note, which
\* keeps its nid; the i-th of the other upserts is a new note whose nid is
\* the push's timestamp plus i - 1, so the new nids are pairwise distinct and
\* increase in delta order.
C31_NidsOfUpserts ==
    (pc = "push_close_temp")
        => /\ \A d \in SeqRange(Upserts(loc.deltas)) :
                 d.file.guid \in LiveGuids
                    => \E n \in loc.tempcol.notes :
                          /\ n.guid = d.file.guid
                          /\ \E o \in NotesOfGuid(pre.col, n.guid) :
                                o.nid = n.nid
                          /\ \E e \in SeqRange(Upserts(loc.deltas)) :
                                /\ e.file.guid = n.guid
                                /\ e.file.val = n.val
           /\ \A i \in DOMAIN FreshUpserts :
                 [nid |-> PushTimestamp + i - 1,
                  guid |-> FreshUpserts[i].file.guid,
                  val |-> FreshUpserts[i].file.val,
                  model |-> FreshUpserts[i].file.model] \in loc.tempcol.notes
           /\ \A i \in DOMAIN FreshUpserts : \A j \in DOMAIN FreshUpserts :
                 i < j => \E n \in loc.tempcol.notes :
                          \E o \in loc.tempcol.notes :
                             /\ n.nid < o.nid
                             /\ n.nid \notin {x.nid : x \in pre.col.notes}
                             /\ o.nid \notin {x.nid : x \in pre.col.notes}
                             /\ n.guid = FreshUpserts[i].file.guid
                             /\ o.guid = FreshUpserts[j].file.guid

\* C31 witness: a push built a collection from two upserts of guids that
\* were new, and the collection it started from was not empty.
C31_Witness ==
    /\ pc = "push_close_temp"
    /\ Len(FreshUpserts) >= 2
    /\ pre.col.notes # {}

\* ------------------------------------------------ guids of the built notes
\* The notes of the collection being built by the push of SpecNote, as
\* (nid, guid): the note that was there, and every note inserted and kept.
BuiltNotes ==
    {n \in {[nid |-> 1, guid |-> "g1"]}
            \cup {[nid |-> e.nid, guid |-> e.decknote.guid] :
                    e \in {x \in Pushed : x.new /\ x.err = "none"}} :
        n.nid \in loc.nids}

\* C33: push preserves the uniqueness of guids: the collection had one note
\* per guid, and after the note files are pushed no two notes share a guid,
\* also when two files of the push carry the same guid.
C33_GuidsStayUnique ==
    PushingNotes
        => \A n \in BuiltNotes : \A o \in BuiltNotes :
              n.guid = o.guid => n.nid = o.nid

\* C33 witness: two files of one push carry the guid of a note of the
\* collection; both were applied to that note and no note was inserted.
C33_KnownGuidTwice ==
    /\ pc = "returned" /\ res.op = "push_note" /\ res.outcome = "ok"
    /\ Len(loc.log) = 2
    /\ \A i \in 1..2 : /\ loc.log[i].decknote.guid = "g1"
                       /\ ~loc.log[i].new
                       /\ loc.log[i].nid = 1
                       /\ loc.log[i].kept
    /\ BuiltNotes = {[nid |-> 1, guid |-> "g1"]}

\* ------------------------------------------------------ pull and the tag
\* The LCA tag of a repository: the commit it names and that commit's files.
LcaTag(r) == <<r.lca, r.lcaTree, r.lcaHashes>>

\* C34: pull never creates, deletes or moves the LCA tag. No step of a pull
\* changes the tag, and a step that changes it is the tagging step of a
\* clone or the delete_tag or create_tag step of a push, so the tag a pull
\* merges against is the one the last successful clone or push left.
C34_PullKeepsTag ==
    [][/\ (pc \in PullPcs \/ pc' \in PullPcs)
            => LcaTag(repo') = LcaTag(repo)
       /\ LcaTag(repo') # LcaTag(repo)
            => pc \in {"clone_tag", "push_delete_tag", "push_create_tag"}]_vars

\* C34 witness: a pull merged and committed, HEAD moved, and the tag is on
\* the commit it was on, behind HEAD.
C34_Witness ==
    /\ Returned("pull", "merged")
    /\ repo.head # pre.repo.head
    /\ pre.repo.lca # NoTag
    /\ LcaTag(repo) = LcaTag(pre.repo)
    /\ repo.lca # repo.head

\* ======================================================= note file names
\* get_note_path on the notes written into one deck directory. Texts are
\* sequences of characters; "NL" stands for the newline character.
MAX_FILENAME_LEN == 60
MaxPathNotes == 3

Rep(c, n) == [i \in 1..n |-> c]
SortFields ==
    {<<>>, <<"a">>, <<"A">>, <<"a", " ", "b">>, <<"a", "NL", "b">>,
     <<"<", "i", ">", "a", "<", "/", "i", ">">>, <<"?">>, <<" ", "a", " ">>,
     Rep("a", MAX_FILENAME_LEN), Rep("a", MAX_FILENAME_LEN) \o <<"b">>}

LowerLetters == {"a", "b", "i", "r"}
Whitespace == {" ", "NL"}

\* str.strip(): leading and trailing whitespace removed.
RECURSIVE LStrip(_)
LStrip(t) ==
    IF t # <<>> /\ Head(t) \in Whitespace THEN LStrip(Tail(t)) ELSE t
RECURSIVE RStrip(_)
RStrip(t) ==
    IF t # <<>> /\ t[Len(t)] \in Whitespace
    THEN RStrip(SubSeq(t, 1, Len(t) - 1)) ELSE t
Strip(t) == RStrip(LStrip(t))

\* re.search(HTML_REGEX, plain), line 142: a tag, that is "<", an optional
\* "/", optional blanks, a lower-case letter or "-", and a ">" further on.
\* (The texts here hold no "&...;" entity.)
RECURSIVE SkipBlanks(_, _)
SkipBlanks(t, k) ==
    IF k <= Len(t) /\ t[k] \in Whitespace THEN SkipBlanks(t, k + 1) ELSE k
HasHtml(t) ==
    \E i \in DOMAIN t :
        /\ t[i] = "<"
        /\ LET s == IF i < Len(t) /\ t[i + 1] = "/" THEN i + 2 ELSE i + 1
               k == SkipBlanks(t, s)
           IN /\ k <= Len(t)
              /\ t[k] \in LowerLetters \cup {"-"}
              /\ \E j \in (k + 1)..Len(t) : t[j] = ">"

\* plain_to_html, lines 414-429, on texts without entities and without
\* empty <b>, <i> or <div> pairs: a newline becomes <br> unless the text
\* holds HTML, and the result is stripped.
RECURSIVE Newlines2Br(_)
Newlines2Br(t) ==
    IF t = <<>> THEN <<>>
    ELSE IF Len(t) = 1
    THEN (IF t[1] = "NL" THEN <<"<", "b", "r", ">">> ELSE t)
    ELSE LET m == Len(t) \div 2
         IN Newlines2Br(SubSeq(t, 1, m))
               \o Newlines2Br(SubSeq(t, m + 1, Len(t)))
plain_to_html(t) == Strip(IF HasHtml(t) THEN t ELSE Newlines2Br(t))

\* re.sub("<[^<]+?>", "", text), line 534: every "<", one or more characters
\* other than "<" (as few as possible) and ">" is removed.
\* A match never holds the "<" of another, so matches do not overlap.
TagEnds(t, s) ==
    {j \in (s + 2)..Len(t) :
        t[j] = ">" /\ \A k \in (s + 1)..(j - 1) : t[k] # "<"}
InTag(t, i) ==
    \E s \in 1..i :
        /\ t[s] = "<"
        /\ \E j \in TagEnds(t, s) :
              /\ \A y \in TagEnds(t, s) : j <= y
              /\ i <= j
StripTags(t) ==
    LET marked == [i \in DOMAIN t |-> <<InTag(t, i), t[i]>>]
        left == SelectSeq(marked, LAMBDA p : ~p[1])
    IN [i \in DOMAIN left |-> left[i][2]]

\* F.slugify: lower case, every run of characters that are neither letters
\* nor digits becomes one "-", leading and trailing "-" are trimmed.
Lower(c) == IF c = "A" THEN "a" ELSE c
Dashed(t) ==
    LET d == [i \in DOMAIN t |->
                 IF Lower(t[i]) \in LowerLetters THEN Lower(t[i]) ELSE "-"]
        marked == [i \in DOMAIN t |->
                      <<i > 1 /\ d[i] = "-" /\ d[i - 1] = "-", d[i]>>]
        left == SelectSeq(marked, LAMBDA p : ~p[1])
    IN [i \in DOMAIN left |-> left[i][2]]
RECURSIVE TrimDashes(_)
TrimDashes(t) ==
    IF t # <<>> /\ Head(t) = "-" THEN TrimDashes(Tail(t))
    ELSE IF t # <<>> /\ t[Len(t)] = "-"
    THEN TrimDashes(SubSeq(t, 1, Len(t) - 1))
    ELSE t
slugify(t) == TrimDashes(Dashed(t))

Truncate(t) == SubSeq(t, 1, Min(Len(t), MAX_FILENAME_LEN))

\* Lines 530-542: the text the file name is made of, the sort field with its
\* HTML stripped, or the raw sort field when nothing is left.
field_text(sfld) ==
    LET stripped == StripTags(plain_to_html(sfld))
    IN IF Len(stripped) = 0 THEN sfld ELSE stripped

\* Lines 544-561: the slug of a note; from the sort field, else from all the
\* fields, else from the notetype name, the guid in hex and the date of the
\* note id (to the second, so one date for the notes here).
note_slug(colnote) ==
    LET slug == slugify(Truncate(field_text(colnote.sfld)))
        contents == colnote.sfld \o <<" ">> \o colnote.rest
        slug2 == slugify(Truncate(contents))
    IN IF Len(slug) > 0 THEN slug
       ELSE IF Len(slug2) > 0 THEN slug2
       ELSE <<colnote.notetype, "-", "-", "hex", colnote.guid, "-", "-",
              "date">>

Digits == <<"1", "2", "3", "4", "5", "6", "7", "8", "9">>
\* Lines 565 and 570: <slug>.md and <slug>_<i>.md.
FileName(slug, i) ==
    IF i = 0 THEN slug \o <<".md">> ELSE slug \o <<"_", Digits[i], ".md">>

\* Variant: the first name is taken whether the file exists or not.
note_path_first(files, slug, i) == FileName(slug, 0)

\* Lines 565-574: the first of <slug>.md, <slug>_1.md, <slug>_2.md, ... that
\* is not in the deck directory.
RECURSIVE note_path(_, _, _)
note_path(files, slug, i) ==
    IF FileName(slug, i) \notin files THEN FileName(slug, i)
    ELSE note_path(files, slug, i + 1)

\* The notes of one deck, in the order clone writes them; guids differ.
PathQueues ==
    UNION {[1..n -> SortFields] : n \in 1..MaxPathNotes}
ColNoteAt(q, i) ==
    [sfld |-> q[i], rest |-> IF q[i] = <<"?">> THEN <<"b">> ELSE <<>>,
     notetype |-> "Basic", guid |-> Digits[i]]

InitPath ==
    /\ InitAside
    /\ pc = "write_note"
    /\ res = NoRes
    /\ \E q \in PathQueues :
          loc = [queue |-> [i \in DOMAIN q |-> ColNoteAt(q, i)],
                 files |-> {}, log |-> <<>>]

\* write_note, lines 990-992: the path for the next note, then F.write.
WriteNote ==
    /\ pc = "write_note"
    /\ loc.queue # <<>>
    /\ LET colnote == Head(loc.queue)
           slug == note_slug(colnote)
           path == note_path(loc.files, slug, 0)
       IN loc' = [queue |-> Tail(loc.queue),
                  files |-> loc.files \cup {path},
                  log |-> Append(loc.log,
                                 [colnote |-> colnote, slug |-> slug,
                                  path |-> path,
                                  existed |-> path \in loc.files])]
    /\ UNCHANGED <<pc, res>>
    /\ UNCHANGED Aside

\* Every note of the deck was written.
WriteNotesDone ==
    /\ pc = "write_note"
    /\ loc.queue = <<>>
    /\ pc' = "returned"
    /\ res' = [op |-> "write_note", outcome |-> "ok"]
    /\ UNCHANGED loc
    /\ UNCHANGED Aside

NextPath == WriteNote \/ WriteNotesDone

SpecPath == InitPath /\ [][NextPath]_vars

WritingNotes ==
    pc = "write_note" \/ (pc = "returned" /\ res.op = "write_note")
\* The positions of the log whose note has slug s.
WithSlug(s) == {i \in DOMAIN loc.log : loc.log[i].slug = s}

\* C35: get_note_path returns a path that is not yet in the deck directory.
\* The name comes from at most the first 60 characters of the sort field
\* text (notes that agree on them share a slug); the k notes of a deck with
\* one slug are written, in order, as slug.md, slug_1.md, ...,
\* slug_(k-1).md; no note file replaces another.
C35_FreshNotePaths ==
    WritingNotes
        => /\ \A i \in DOMAIN loc.log : ~loc.log[i].existed
           /\ Cardinality(loc.files) = Len(loc.log)
           /\ \A i \in DOMAIN loc.log :
                 LET e == loc.log[i]
                     text == field_text(e.colnote.sfld)
                 IN /\ slugify(Truncate(text)) # <<>>
                       => /\ e.slug = slugify(Truncate(text))
                          /\ Len(e.slug) <= MAX_FILENAME_LEN
                    /\ \A j \in DOMAIN loc.log :
                          (/\ Truncate(field_text(loc.log[j].colnote.sfld))
                                = Truncate(text)
                           /\ slugify(Truncate(text)) # <<>>)
                             => loc.log[j].slug = e.slug
                    /\ e.path = FileName(e.slug,
                                   Cardinality({j \in WithSlug(e.slug) : j < i}))

\* C35 witness: three notes of one deck, two with a sort field of 61
\* characters that is cut at 60 and one with those 60 characters, got one
\* slug and the names slug.md, slug_1.md, slug_2.md.
C35_Witness ==
    /\ pc = "returned" /\ res.op = "write_note"
    /\ Len(loc.log) = 3
    /\ loc.log[1].colnote.sfld = Rep("a", MAX_FILENAME_LEN) \o <<"b">>
    /\ loc.log[2].colnote.sfld = Rep("a", MAX_FILENAME_LEN)
    /\ loc.log[3].colnote.sfld = Rep("a", MAX_FILENAME_LEN) \o <<"b">>
    /\ loc.log[1].path = Rep("a", MAX_FILENAME_LEN) \o <<".md">>
    /\ loc.log[2].path = Rep("a", MAX_FILENAME_LEN) \o <<"_", "1", ".md">>
    /\ loc.log[3].path = Rep("a", MAX_FILENAME_LEN) \o <<"_", "2", ".md">>

\* =================================================== media symlink chain
\* symlink_media on the deck tree of a clone. A deck is the sequence of the
\* components of its name; Root is the empty sequence. A path is
\* <<deck, file name>>: the entry of that name in the _media directory of
\* the deck, or of the repository root for Root.
NumMediaNotes == 2
Root == <<>>
MediaDeckNames == {<<"A">>, <<"A", "B">>, <<"A", "B", "C">>, <<"D">>}
MediaFiles == {"f.png", "g.png"}
NotetypeMedia == {"_t.png"}
NOTETYPE_NID == 0 - 57

ParentOf(d) == SubSeq(d, 1, Len(d) - 1)
\* The deck trees of a collection: the parent of a deck is a deck.
MediaTrees ==
    {T \in SUBSET MediaDeckNames :
        T # {} /\ \A d \in T : ParentOf(d) = Root \/ ParentOf(d) \in T}

\* node.children, in the order of the deck tree (by name).
NameRank(c) == CASE c = "A" -> 1 [] c = "B" -> 2 [] c = "C" -> 3 [] OTHER -> 4
RECURSIVE SortedDecks(_)
SortedDecks(S) ==
    IF S = {} THEN <<>>
    ELSE LET m == CHOOSE x \in S :
                     \A y \in S : NameRank(x[Len(x)]) <= NameRank(y[Len(y)])
         IN <<m>> \o SortedDecks(S \ {m})
Children(T, node) == SortedDecks({d \in T : ParentOf(d) = node})

RECURSIVE Flatten(_)
Flatten(ss) == IF ss = <<>> THEN <<>> ELSE Head(ss) \o Flatten(Tail(ss))

\* Variant: the decks in post-order, children before their parent.
RECURSIVE preorder_children_first(_, _)
preorder_children_first(T, node) ==
    LET cs == Children(T, node)
        descendants ==
            Flatten([i \in DOMAIN cs |-> preorder_children_first(T, cs[i])])
    IN IF node = Root THEN descendants ELSE descendants \o <<node>>

\* Lines 902-909: pre-order traversal, a deck before its descendants.
RECURSIVE preorder(_, _)
preorder(T, node) ==
    LET cs == Children(T, node)
        descendants == Flatten([i \in DOMAIN cs |-> preorder(T, cs[i])])
    IN IF node = Root THEN descendants ELSE <<node>> \o descendants

\* Lines 1018-1022: deck fullname -> parent deck (or Root).
parentmap(T) == [d \in T |-> ParentOf(d)]

\* col.decks.cids(did, children=True), then the nids of those cards.
DescendantNids(cards, deck) ==
    {n \in DOMAIN cards : IsPrefix(deck, cards[n])}

RECURSIVE SetToSeq(_)
SetToSeq(S) ==
    IF S = {} THEN <<>>
    ELSE LET x == CHOOSE y \in S : TRUE IN <<x>> \o SetToSeq(S \ {x})

\* Lines 1056-1062: the media files of the notetypes and of every note with a
\* card in the deck or below it, one after the other (a file used by two
\* notes comes twice).
DeckMediaFiles(cards, media, deck) ==
    LET nids == SetToSeq({NOTETYPE_NID} \cup DescendantNids(cards, deck))
        with == SelectSeq(nids, LAMBDA n : n \in DOMAIN media)
    IN Flatten([i \in DOMAIN with |-> SetToSeq(media[with[i]])])

\* What is in the _media directories: the copied files and the links.
Exists(fs, path) == path \in fs.files \/ path \in {l.link : l \in fs.links}

\* Lines 1025-1040: no link where something exists already; the target is
\* the copied file for a top-level deck, the parent's entry otherwise.
planned_link(parents, deck, media_file, fs) ==
    LET link == <<deck, media_file>>
        parent == parents[deck]
    IN IF Exists(fs, link) THEN <<>>
       ELSE <<[link |-> link,
               tgt |-> IF parent = Root THEN <<Root, media_file>>
                       ELSE <<parent, media_file>>]>>

\* Lines 1063-1064: plan and create the links, file by file.
RECURSIVE link_files(_, _, _, _)
link_files(parents, deck, files, fs) ==
    IF files = <<>> THEN fs
    ELSE LET plinks == planned_link(parents, deck, Head(files), fs)
             made == [i \in DOMAIN plinks |->
                         [link |-> plinks[i].link, tgt |-> plinks[i].tgt,
                          found |-> Exists(fs, plinks[i].tgt)]]
         IN link_files(parents, deck, Tail(files),
                       [fs EXCEPT !.links = @ \cup SeqRange(plinks),
                                  !.made = @ \o made])

\* The notes of the collection: the deck of their cards and their copied
\* media files; the media files of the notetypes.
MediaCards(T) == [1..NumMediaNotes -> T]
MediaMaps ==
    {m @@ (NOTETYPE_NID :> t) :
        m \in [1..NumMediaNotes -> SUBSET MediaFiles],
        t \in SUBSET NotetypeMedia}

InitMedia ==
    /\ InitAside
    /\ pc = "symlink_media"
    /\ res = NoRes
    /\ \E T \in MediaTrees :
       \E cards \in MediaCards(T), media \in MediaMaps :
          loc = [tree |-> T, cards |-> cards, media |-> media,
                 decks |-> preorder(T, Root),
                 fs |-> [files |-> {<<Root, f>> :
                                      f \in UNION {media[n] : n \in DOMAIN media}},
                         links |-> {}, made |-> <<>>]]

\* Lines 1043-1064: symlink_deck_media for the next deck.
SymlinkDeckMedia ==
    /\ pc = "symlink_media"
    /\ loc.decks # <<>>
    /\ LET deck == Head(loc.decks)
           files == DeckMediaFiles(loc.cards, loc.media, deck)
       IN loc' = [loc EXCEPT
                    !.decks = Tail(@),
                    !.fs = link_files(parentmap(loc.tree), deck, files, @)]
    /\ UNCHANGED <<pc, res>>
    /\ UNCHANGED Aside

\* Line 1074: every deck was linked.
SymlinkMediaDone ==
    /\ pc = "symlink_media"
    /\ loc.decks = <<>>
    /\ pc' = "returned"
    /\ res' = [op |-> "symlink_media", outcome |-> "ok"]
    /\ UNCHANGED loc
    /\ UNCHANGED Aside

NextMedia == SymlinkDeckMedia \/ SymlinkMediaDone

SpecMedia == InitMedia /\ [][NextMedia]_vars

LinkingMedia ==
    pc = "symlink_media" \/ (pc = "returned" /\ res.op = "symlink_media")
\* The files used by the notes that have a card in deck d or below it.
UsedBelow(d) ==
    UNION {loc.media[n] : n \in DescendantNids(loc.cards, d)}
\* Where a path leads: a copied file is itself, a link leads where its
\* target leads, anything else leads nowhere.
RECURSIVE Resolve(_, _)
Resolve(path, fuel) ==
    IF path \in loc.fs.files THEN path
    ELSE IF fuel = 0 \/ \A l \in loc.fs.links : l.link # path
    THEN <<"dangling">>
    ELSE Resolve((CHOOSE l \in loc.fs.links : l.link = path).tgt, fuel - 1)

\* C36: after clone, for every deck D and every copied media file f used by
\* a note with a card in D or below, D/_media/f is a link to the parent's
\* _media/f, or to the root's for a top-level deck; the target of every link
\* exists when the link is created, every chain leads to the root file, no
\* link dangles, and no link path is linked twice.
C36_MediaLinkChain ==
    LinkingMedia
        => /\ \A i \in DOMAIN loc.fs.made : loc.fs.made[i].found
           /\ \A i \in DOMAIN loc.fs.made : \A j \in DOMAIN loc.fs.made :
                 loc.fs.made[i].link = loc.fs.made[j].link => i = j
           /\ \A l \in loc.fs.links :
                 Resolve(l.link, Len(l.link[1])) = <<Root, l.link[2]>>
           /\ pc = "returned"
                => \A d \in loc.tree : \A f \in UsedBelow(d) :
                      [link |-> <<d, f>>, tgt |-> <<ParentOf(d), f>>]
                          \in loc.fs.links

\* C36 witness: a note of deck A::B::C uses a file that another note uses
\* too; the file is linked in C, B and A, each to the level above.
C36_Witness ==
    /\ pc = "returned" /\ res.op = "symlink_media"
    /\ loc.cards[1] = <<"A", "B", "C">>
    /\ "f.png" \in loc.media[1] \cap loc.media[2]
    /\ {l \in loc.fs.links : l.link[2] = "f.png"}
         = {[link |-> <<<<"A", "B", "C">>, "f.png">>,
             tgt |-> <<<<"A", "B">>, "f.png">>],
            [link |-> <<<<"A", "B">>, "f.png">>,
             tgt |-> <<<<"A">>, "f.png">>],
            [link |-> <<<<"A">>, "f.png">>, tgt |-> <<Root, "f.png">>]}

\* ------------------------------------- decks named like the media directory
\* The decks of the clone of SpecDecks that have `_media` inside a component
\* of their name and no component equal to it.
SubstringDecks == {d \in loc.decks : MediaInFullname(d) /\ ~MediaInParts(d)}

\* C37: a deck is a reserved-name collision only when `_media` is one of the
\* components of its name; a deck that merely has `_media` inside a
\* component is cloned like any other: no warning, its directory is made,
\* the files of its notes are written there and the clone succeeds.
C37_SubstringDeckCloned ==
    (ClonedDecks /\ SingleDeckNotes /\ MediaDecks = {} /\ SubstringDecks # {})
        => /\ res.err = "none"
           /\ res.warnings = <<>>
           /\ SubstringDecks \subseteq res.dirs
           /\ \A n \in DeckNoteIds :
                 \E d \in loc.cards[n] : [nid |-> n, deck |-> d] \in res.files

\* C37, what the clone does when a note lies in such a deck: the collision
\* warning is emitted, the deck is left out of the deck map and write_note
\* raises KeyError.
C37_SubstringDeckNoteRaises ==
    /\ ClonedDecks /\ SingleDeckNotes /\ MediaDecks = {}
    /\ \E n \in DeckNoteIds : loc.cards[n] \subseteq SubstringDecks
    /\ res.err = "KeyError"
    /\ res.warnings = <<"MediaDirectoryDeckNameCollisionWarning">>
    /\ res.dirs \cap SubstringDecks = {}

\* ====================================================== fields of a note
\* update_note in full, on one note and one note file. A notetype is its id
\* and the names of its fields; a field value is a text.
FieldNotetypes ==
    {[id |-> 1, flds |-> <<"Front", "Back">>, sortf |-> 1],
     [id |-> 2, flds |-> <<"Text">>, sortf |-> 1]}
FileValue(i) == <<" ", Digits[i]>>
\* The field values a note of the collection has before the push.
OldValues(notetype) == [i \in DOMAIN notetype.flds |-> <<"x", Digits[i]>>]
\* The note files: notetype, field names in file order, a value for each.
FieldDeckNotes ==
    {[model |-> nt.id, keys |-> k, vals |-> [i \in DOMAIN k |-> FileValue(i)]] :
        nt \in FieldNotetypes, k \in KeyLists}

\* Lines 442-506: a change of notetype (which clears the fields of the note,
\* every old field being mapped to None) comes before the validation of the
\* field names; with warnings update_note returns there; otherwise the
\* fields are set from the file, the note is flushed, its health is checked
\* and an unhealthy note is removed.
update_note_fields(note, decknote, old_notetype, new_notetype, health) ==
    LET changed == IF old_notetype.id # new_notetype.id
                   THEN [mid |-> new_notetype.id,
                         flds |-> [i \in DOMAIN new_notetype.flds |-> <<>>]]
                   ELSE note
        warnings == validate_decknote_fields(new_notetype.flds, decknote.keys)
        fwarns == check_fields_health(health)
    IN IF Len(warnings) > 0
       THEN [note |-> changed, warnings |-> warnings, removed |-> FALSE,
             checked |-> FALSE]
       ELSE [note |-> [changed EXCEPT
                         !.flds = [i \in DOMAIN decknote.keys |->
                                      plain_to_html(decknote.vals[i])]],
             warnings |-> fwarns, removed |-> Len(fwarns) > 0,
             checked |-> TRUE]

NotetypeOfId(id) == CHOOSE nt \in FieldNotetypes : nt.id = id
NoNote == [mid |-> 0, flds |-> <<>>]

\* Lines 688-717 with the contents of the note: a note of the collection is
\* fetched and updated; for a new guid a note is inserted with the file's
\* values as they are (line 706; its sort field is looked up by name in the
\* file, line 707) and then updated, its notetype being the one it was
\* inserted with.
push_note_fields(known, note, decknote, health) ==
    LET new_notetype == NotetypeOfId(decknote.model)
        inserted == [mid |-> new_notetype.id, flds |-> decknote.vals]
    IN IF known
       THEN [err |-> "none"]
              @@ update_note_fields(note, decknote, NotetypeOfId(note.mid),
                                    new_notetype, health)
       ELSE IF new_notetype.flds[new_notetype.sortf]
                  \notin SeqRange(decknote.keys)
       THEN [err |-> "KeyError", note |-> NoNote, warnings |-> <<>>,
             removed |-> FALSE, checked |-> FALSE]
       ELSE [err |-> "none"]
              @@ update_note_fields(inserted, decknote, new_notetype,
                                    new_notetype, health)

InitFields ==
    /\ InitAside
    /\ pc = "push_note"
    /\ res = NoRes
    /\ \E dn \in FieldDeckNotes :
          \/ \E old \in FieldNotetypes :
                loc = [known |-> TRUE, decknote |-> dn,
                       note |-> [mid |-> old.id, flds |-> OldValues(old)]]
          \/ loc = [known |-> FALSE, decknote |-> dn, note |-> NoNote]

\* Line 1629: push_note for one note file.
PushNoteFields ==
    /\ pc = "push_note"
    /\ \E health \in 0..MaxHealth :
          /\ res' = [op |-> "push_note_fields", health |-> health]
                      @@ push_note_fields(loc.known, loc.note, loc.decknote,
                                          health)
          /\ pc' = "returned"
    /\ UNCHANGED loc
    /\ UNCHANGED Aside

NextFields == PushNoteFields

SpecFields == InitFields /\ [][NextFields]_vars

\* A note file was pushed and its field names do not match the notetype it
\* names.
WarnedFields ==
    /\ pc = "returned" /\ res.op = "push_note_fields" /\ res.err = "none"
    /\ loc.decknote.keys # NotetypeOfId(loc.decknote.model).flds

\* C38: when the validation of the fields of a note file against its
\* notetype yields a warning, none of the file's values is written into the
\* note and its health is not checked: a note the collection had has exactly
\* the field contents it had before the push.
C38_WarnedNoteKeepsFields ==
    WarnedFields
        => /\ ~res.checked
           /\ ~res.removed
           /\ \A i \in DOMAIN res.note.flds :
                 \A j \in DOMAIN loc.decknote.vals :
                    /\ res.note.flds[i] # loc.decknote.vals[j]
                    /\ res.note.flds[i] # plain_to_html(loc.decknote.vals[j])
           /\ loc.known => res.note.flds = loc.note.flds

\* C38, the case in which it holds: the file names the notetype that the
\* note of the collection has, its field names do not match, and the note is
\* left as it was, unchecked.
C38_SameNotetypeKept ==
    /\ WarnedFields
    /\ loc.known
    /\ loc.decknote.model = loc.note.mid
    /\ res.warnings # <<>>
    /\ ~res.checked
    /\ res.note = loc.note

\* ------------------------------------------- validation of the field names
\* How many times a warning occurs in a list of warnings.
CountOf(warnings, w) == Cardinality({i \in DOMAIN warnings : warnings[i] = w})
\* The positions, present in both lists, at which the names differ.
DifferingPositions(names, keys) ==
    {i \in 1..Min(Len(names), Len(keys)) : names[i] # keys[i]}

\* C39: validate_decknote_fields returns no warning exactly when the field
\* names of the note file, in order, are those of the notetype, in order; a
\* different number of fields yields a WrongFieldCountWarning, and every
\* position at which the two names differ yields one
\* InconsistentFieldNamesWarning. These are the warnings of a note file
\* whose fields were not written.
C39_ValidateFields ==
    \A e \in Pushed :
       e.err = "none" =>
          LET names == loc.notetype.flds
              keys == e.decknote.keys
              w == validate_decknote_fields(names, keys)
          IN /\ (w = <<>>) <=> (keys = names)
             /\ CountOf(w, "WrongFieldCountWarning")
                   = (IF Len(keys) # Len(names) THEN 1 ELSE 0)
             /\ CountOf(w, "InconsistentFieldNamesWarning")
                   = Cardinality(DifferingPositions(names, keys))
             /\ Len(w) = CountOf(w, "WrongFieldCountWarning")
                           + CountOf(w, "InconsistentFieldNamesWarning")
             /\ e.checked <=> (w = <<>>)
             /\ ~e.checked => e.warnings = w

\* C39: a note file with fewer fields than its notetype, one of them under
\* another name, was validated, and another file drew two warnings for two
\* names in the wrong order.
C39_Witness ==
    /\ \E e \in Pushed :
          /\ e.err = "none"
          /\ Len(e.decknote.keys) < Len(loc.notetype.flds)
          /\ e.warnings = <<"WrongFieldCountWarning",
                             "InconsistentFieldNamesWarning">>
    /\ \E e \in Pushed :
          /\ e.err = "none"
          /\ e.warnings = <<"InconsistentFieldNamesWarning",
                             "InconsistentFieldNamesWarning">>
====
